---- MODULE Spec2Model ----
(***************************************************************************)
(* A model of the YAPL transpiler (src/src/transpiler.js): the lowering of *)
(* a decoded YAPL document to JavaScript source text, the module cache of  *)
(* one YAPLTranspiler instance, and the host evaluation of emitted text.   *)
(*                                                                         *)
(* A JavaScript string is a sequence of atoms.  An atom is one character,  *)
(* or a run of characters the code never looks inside (" + ", "null",      *)
(* "function ").  The characters the code tests or rewrites one by one --  *)
(* the double quote, the backslash, the backtick, the dollar, the line     *)
(* break, the semicolon, the dot, braces, brackets, digits -- are always   *)
(* atoms of their own.                                                     *)
(***************************************************************************)
EXTENDS Integers, Sequences, FiniteSets, TLC

VARIABLES
  functions,        \* this.functions: names registered as functions
  globals,          \* this.globals
  params,           \* this.params
  baseDir,          \* this.baseDir
  importedModules,  \* this.importedModules: requested path -> module code
  ast,              \* the document handed to transpile
  pc,               \* position of transpile / of the pure-function harness
  idx,              \* loop index of the running for/map loop
  pending,          \* the module the running loadYAPLModule call has read
  yaplModules,      \* local yaplModules of transpile
  parts,            \* local parts of transpile
  globalDecls,      \* local globals of transpile: the lowered global declarations
  functionDecls,    \* local functions of transpile: the lowered functions
  output,           \* the text transpile returned
  error,            \* the exception that ended the call, if any
  oldParams,        \* local oldParams of the last transpileFunction call
  fsReads,          \* resolved paths handed to fs.readFileSync, in order
  lowered,          \* resolved paths handed to transpileModule, in order
  runs,             \* number of transpile calls started on the instance
  node,             \* input of the expression harness
  frag,             \* result of transpileExpr(node, 0)
  value,            \* result of execute(frag)
  fresh             \* document -> the source transpile returned for it as the
                    \* first call on an instance

vars == <<functions, globals, params, baseDir, importedModules, ast, pc, idx,
          pending, yaplModules, parts, globalDecls, functionDecls, output, error,
          oldParams, fsReads, lowered, runs, node, frag, value, fresh>>

-----------------------------------------------------------------------------
(* Text helpers: String.prototype / Array.prototype operations used.       *)

Q   == "\""
BS  == "\\"
NL  == "\n"
BT  == "<backtick>"   \* the backtick character
SQ  == "'"
DOL == "$"

RECURSIVE JoinTexts(_, _)
\* Array.prototype.join over an array of strings
JoinTexts(ts, sep) ==
  IF Len(ts) = 0 THEN <<>>
  ELSE IF Len(ts) = 1 THEN ts[1]
  ELSE ts[1] \o sep \o JoinTexts(Tail(ts), sep)

RECURSIVE Concat(_)
Concat(ts) == IF Len(ts) = 0 THEN <<>> ELSE ts[1] \o Concat(Tail(ts))

Range(f) == {f[i] : i \in DOMAIN f}

Last(s) == s[Len(s)]
Front(s) == SubSeq(s, 1, Len(s) - 1)

DigitChars == <<"0", "1", "2", "3", "4", "5", "6", "7", "8", "9">>
Digits == {DigitChars[i] : i \in 1..10}

RECURSIVE NatStr(_)
NatStr(n) ==
  IF n < 10 THEN <<DigitChars[n + 1]>>
  ELSE NatStr(n \div 10) \o <<DigitChars[(n % 10) + 1]>>

\* JSON.stringify of an integer number
NumStr(n) == IF n < 0 THEN <<"-">> \o NatStr(-n) ELSE NatStr(n)

\* JSON.stringify's escaping of one character of a string
EscapeAtom(a) ==
  IF a = Q THEN <<BS, Q>>
  ELSE IF a = BS THEN <<BS, BS>>
  ELSE IF a = NL THEN <<BS, "n">>
  ELSE <<a>>

\* JSON.stringify of a string
JSONString(s) == <<Q>> \o Concat([i \in 1..Len(s) |-> EscapeAtom(s[i])]) \o <<Q>>

\* the atoms matching [a-zA-Z_$] runs, and the identifier pattern
\* /^[a-zA-Z_$][a-zA-Z0-9_$]*$/ over atoms
IdentStart == {"a", "b", "f", "g", "h", "n", "m", "x", "y", "fa", "fb", "fc", "ga",
               "gb", "gc", "fs", "Math", "PI", "max", "length", "obj", DOL}
IsIdentifierText(s) ==
  /\ Len(s) > 0
  /\ s[1] \in IdentStart
  /\ \A i \in 2..Len(s) : s[i] \in IdentStart \cup Digits

RECURSIVE IsDottedIdentifier(_)
\* /^[a-zA-Z_$][a-zA-Z0-9_$]*(\.[a-zA-Z_$][a-zA-Z0-9_$]*)*$/
IsDottedIdentifier(s) ==
  IF \E i \in 1..Len(s) : s[i] = "."
  THEN LET d == CHOOSE i \in 1..Len(s) :
                  s[i] = "." /\ \A j \in 1..(i - 1) : s[j] # "."
       IN IsIdentifierText(SubSeq(s, 1, d - 1))
          /\ IsDottedIdentifier(SubSeq(s, d + 1, Len(s)))
  ELSE IsIdentifierText(s)

-----------------------------------------------------------------------------
(* Decoded YAML values (Expr).  One record shape for all:                  *)
(*   t: the kind, n: a number, s: a string, k: the child nodes.            *)

Num(n)       == [t |-> "num",  n |-> n, s |-> <<>>, k |-> <<>>]
Bool(b)      == [t |-> "bool", n |-> IF b THEN 1 ELSE 0, s |-> <<>>, k |-> <<>>]
Str(s)       == [t |-> "str",  n |-> 0, s |-> s,    k |-> <<>>]
Null         == [t |-> "null", n |-> 0, s |-> <<>>, k |-> <<>>]
Arr(items)   == [t |-> "arr",  n |-> 0, s |-> <<>>, k |-> items]
\* {if: {cond, then, else}}; n = 1 when the else key is present
IfForm(c, th, el) == [t |-> "if", n |-> 1, s |-> <<>>, k |-> <<c, th, el>>]
IfNoElse(c, th)   == [t |-> "if", n |-> 0, s |-> <<>>, k |-> <<c, th>>]
\* {let: {name, value}}
LetOne(name, v)   == [t |-> "let", n |-> 1, s |-> name, k |-> <<v>>]
\* {let: [{name, value}, ...]}: k holds LetOne-shaped bindings
LetMany(bs)       == [t |-> "let", n |-> 2, s |-> <<>>, k |-> bs]
\* {let: <anything else truthy>}: s is JSON.stringify of the payload
LetBad(json)      == [t |-> "let", n |-> 0, s |-> json, k |-> <<>>]

Op(name, args) == Arr(<<Str(<<name>>)>> \o args)

\* the result of a lowering call: the text returned, or the exception thrown
Ret(code)        == [err |-> "",   msg |-> <<>>, code |-> code]
Throw(kind, msg) == [err |-> kind, msg |-> msg,  code |-> <<>>]

-----------------------------------------------------------------------------
(* The Expression Lowering Engine.  st is the scope registry the call      *)
(* reads: [functions, globals, params], each a set of names.               *)

IND == "  "   \* two spaces of indentation

\* String.prototype.trim
RECURSIVE Trim(_)
Trim(s) ==
  IF Len(s) > 0 /\ s[1] \in {" ", IND, NL} THEN Trim(Tail(s))
  ELSE IF Len(s) > 0 /\ Last(s) \in {" ", IND, NL} THEN Trim(Front(s))
  ELSE s

\* the lines of a text (split on the line break)
RECURSIVE SplitLines(_)
SplitLines(s) ==
  IF \E i \in 1..Len(s) : s[i] = NL
  THEN LET d == CHOOSE i \in 1..Len(s) : s[i] = NL /\ \A j \in 1..(i - 1) : s[j] # NL
       IN <<SubSeq(s, 1, d - 1)>> \o SplitLines(SubSeq(s, d + 1, Len(s)))
  ELSE <<s>>

\* indent(text, 2)
indent(text) ==
  LET ls == SplitLines(text)
  IN JoinTexts([i \in 1..Len(ls) |-> <<IND>> \o ls[i]], <<NL>>)

maybeParenthesize(code, outerPrec, innerPrec) ==
  IF outerPrec > innerPrec THEN <<"(">> \o code \o <<")">> ELSE code

Operators == {"+", "-", "*", "/", "%", "**", "==", "!=", "<", ">", "<=", ">=",
              "&&", "||", "!", "typeof", "instanceof", "."}

isOperator(s) == Len(s) = 1 /\ s[1] \in Operators

\* PREC[op] || 0
PREC(op) ==
  CASE op = "||" -> 1
    [] op = "&&" -> 2
    [] op \in {"==", "!=", "<", ">", "<=", ">="} -> 3
    [] op \in {"+", "-"} -> 4
    [] op \in {"*", "/", "%"} -> 5
    [] op = "**" -> 6
    [] op \in {"!", "typeof", "instanceof"} -> 7
    [] OTHER -> 0

\* the keys every {} inherits from Object.prototype: a lookup of one of them
\* in this.functions, this.globals or this.params gives a truthy value
ObjectPrototypeKeys ==
  {<<"toString">>, <<"constructor">>, <<"valueOf">>, <<"hasOwnProperty">>,
   <<"isPrototypeOf">>, <<"propertyIsEnumerable">>, <<"toLocaleString">>,
   <<"__proto__">>, <<"__defineGetter__">>, <<"__defineSetter__">>,
   <<"__lookupGetter__">>, <<"__lookupSetter__">>}

\* null is modelled by the empty text, which is no identifier
getJavaScriptIdentifier(s) ==
  IF Len(s) > 0 /\ s[1] = "." /\ IsDottedIdentifier(Tail(s)) THEN Tail(s) ELSE <<>>

transpileIdentifier(name) == name

isStringLiteral(part) ==
  LET trimmed == Trim(part)
  IN \/ (Len(trimmed) > 0 /\ trimmed[1] = Q /\ Last(trimmed) = Q)
     \/ (Len(trimmed) > 0 /\ trimmed[1] = SQ /\ Last(trimmed) = SQ)

\* the loop building templateParts: acc is templateParts, cur is currentString
RECURSIVE TemplateParts(_, _, _)
TemplateParts(fragments, acc, cur) ==
  IF Len(fragments) = 0
  THEN IF cur # <<>> THEN Append(acc, [type |-> "text", content |-> cur]) ELSE acc
  ELSE IF isStringLiteral(fragments[1])
       THEN LET trimmed == Trim(fragments[1])
            IN TemplateParts(Tail(fragments), acc,
                             cur \o SubSeq(trimmed, 2, Len(trimmed) - 1))
       ELSE LET acc1 == IF cur # <<>>
                        THEN Append(acc, [type |-> "text", content |-> cur])
                        ELSE acc
            IN TemplateParts(Tail(fragments),
                             Append(acc1, [type |-> "expr", content |-> fragments[1]]),
                             <<>>)

\* .replace(/\\/g, '\\\\').replace(/`/g, '\\`').replace(/\$/g, '\\$')
EscapeTemplateText(content) ==
  Concat([i \in 1..Len(content) |->
            IF content[i] \in {BS, BT, DOL} THEN <<BS, content[i]>>
            ELSE <<content[i]>>])

\* [null |-> TRUE] models the null return
convertStringConcatToTemplate(fragments) ==
  IF Len(fragments) = 0 THEN [null |-> TRUE, text |-> <<>>]
  ELSE IF ~ \E i \in 1..Len(fragments) : isStringLiteral(fragments[i])
  THEN [null |-> TRUE, text |-> <<>>]
  ELSE
    LET tp == TemplateParts(fragments, <<>>, <<>>)
    IN IF \A i \in 1..Len(tp) : tp[i].type = "text"
       THEN [null |-> FALSE,
             text |-> JSONString(Concat([i \in 1..Len(tp) |-> tp[i].content]))]
       ELSE [null |-> FALSE,
             text |-> <<BT>>
                      \o Concat([i \in 1..Len(tp) |->
                           IF tp[i].type = "text"
                           THEN EscapeTemplateText(tp[i].content)
                           ELSE <<DOL, "{">> \o tp[i].content \o <<"}">>])
                      \o <<BT>>]

RECURSIVE transpileExpr(_, _, _), MapExprs(_, _, _), transpileArrayExpr(_, _, _),
          transpileOperator(_, _, _, _), transpilePropertyAccess(_, _, _),
          transpileObjectExpr(_, _, _), transpileLet(_, _, _), LetBindings(_, _)

\* array.map(arg => this.transpileExpr(arg, prec)): the first throw ends it
MapExprs(args, prec, st) ==
  IF Len(args) = 0 THEN [err |-> "", msg |-> <<>>, codes |-> <<>>]
  ELSE LET r == transpileExpr(args[1], prec, st)
       IN IF r.err # "" THEN [err |-> r.err, msg |-> r.msg, codes |-> <<>>]
          ELSE LET rest == MapExprs(Tail(args), prec, st)
               IN IF rest.err # "" THEN rest
                  ELSE [err |-> "", msg |-> <<>>, codes |-> <<r.code>> \o rest.codes]

transpileOperator(op, args, precedence, st) ==
  LET opPrec == PREC(op)
      first  == IF Len(args) > 0 THEN transpileExpr(args[1], opPrec, st)
                ELSE Ret(<<"null">>)
      all    == MapExprs(args, opPrec, st)
      fail   == Throw(all.err, all.msg)
      \* the JavaScript token an operator name is emitted as
      Emitted(o) == IF o = "==" THEN "===" ELSE IF o = "!=" THEN "!==" ELSE o
      sp(o)  == <<" ", Emitted(o), " ">>
      \* args[i] of the lowered argument array, "undefined" past its end
      ArgAt(i) == IF i <= Len(all.codes) THEN all.codes[i] ELSE <<"undefined">>
  IN
  CASE op \in {"+", "-"} /\ Len(args) = 1 ->
         IF first.err # "" THEN first
         ELSE Ret(maybeParenthesize(<<op>> \o first.code, precedence, opPrec))
    [] op = "+" /\ Len(args) # 1 ->
         IF all.err # "" THEN fail
         ELSE LET templateResult == convertStringConcatToTemplate(all.codes)
              IN IF ~ templateResult.null
                 THEN Ret(maybeParenthesize(templateResult.text, precedence, opPrec))
                 ELSE Ret(maybeParenthesize(JoinTexts(all.codes, sp("+")),
                                            precedence, opPrec))
    [] (op = "-" /\ Len(args) # 1) \/ op \in {"*", "/", "&&", "||"} ->
         IF all.err # "" THEN fail
         ELSE Ret(maybeParenthesize(JoinTexts(all.codes, sp(op)), precedence, opPrec))
    [] op \in {"%", "**", "==", "!=", "<", ">", "<=", ">=", "instanceof"} ->
         IF all.err # "" THEN fail
         ELSE Ret(maybeParenthesize(ArgAt(1) \o sp(op) \o ArgAt(2),
                                    precedence, opPrec))
    [] op = "!" ->
         IF first.err # "" THEN first
         ELSE Ret(maybeParenthesize(<<"!">> \o first.code, precedence, opPrec))
    [] op = "typeof" ->
         IF first.err # "" THEN first
         ELSE Ret(maybeParenthesize(<<"typeof ">> \o first.code, precedence, opPrec))
    [] OTHER -> Throw("Error", <<"Unknown operator: ", op>>)

transpilePropertyAccess(args, precedence, st) ==
  IF Len(args) < 2
  THEN Throw("Error", <<"Property access requires at least object and property">>)
  ELSE
    LET obj  == transpileExpr(args[1], 20, st)
        prop == args[2]
        propExpr   == transpileExpr(prop, 20, st)
        methodArgs == MapExprs(SubSeq(args, 3, Len(args)), 20, st)
        call == <<"(">> \o JoinTexts(methodArgs.codes, <<", ">>) \o <<")">>
    IN IF obj.err # "" THEN obj
       ELSE IF prop.t = "str" /\ IsIdentifierText(prop.s)
       THEN IF Len(args) = 2
            THEN Ret(maybeParenthesize(obj.code \o <<".">> \o prop.s, precedence, 20))
            ELSE IF methodArgs.err # "" THEN Throw(methodArgs.err, methodArgs.msg)
            ELSE Ret(maybeParenthesize(obj.code \o <<".">> \o prop.s \o call,
                                       precedence, 20))
       ELSE IF propExpr.err # "" THEN propExpr
       ELSE IF Len(args) = 2
            THEN Ret(maybeParenthesize(obj.code \o <<"[">> \o propExpr.code \o <<"]">>,
                                       precedence, 20))
            ELSE IF methodArgs.err # "" THEN Throw(methodArgs.err, methodArgs.msg)
            ELSE Ret(maybeParenthesize(
                       obj.code \o <<"[">> \o propExpr.code \o <<"]">> \o call,
                       precedence, 20))

transpileArrayExpr(e, precedence, st) ==
  IF Len(e.k) = 0 THEN Ret(<<"[", "]">>)
  ELSE
    LET first == e.k[1]
        rest  == Tail(e.k)
    IN IF first.t = "str" /\ isOperator(first.s)
       THEN transpileOperator(first.s[1], rest, precedence, st)
       ELSE IF first.t = "str" /\ first.s = <<".">>
       THEN transpilePropertyAccess(rest, precedence, st)
       ELSE IF first.t # "str"
       \* getJavaScriptIdentifier calls str.startsWith on a value that has none
       THEN Throw("TypeError", <<"str.startsWith is not a function">>)
       ELSE
         LET jsIdentifier == getJavaScriptIdentifier(first.s)
             funcName == transpileIdentifier(
                           IF jsIdentifier # <<>> THEN jsIdentifier ELSE first.s)
             args == MapExprs(rest, 0, st)
         IN IF args.err # "" THEN Throw(args.err, args.msg)
            ELSE Ret(maybeParenthesize(
                       funcName \o <<"(">> \o JoinTexts(args.codes, <<", ">>) \o <<")">>,
                       precedence, 20))

\* letExpr.map(b => `let ${name} = ${value};`)
LetBindings(bs, st) ==
  IF Len(bs) = 0 THEN [err |-> "", msg |-> <<>>, codes |-> <<>>]
  ELSE LET v == transpileExpr(bs[1].k[1], 0, st)
       IN IF v.err # "" THEN [err |-> v.err, msg |-> v.msg, codes |-> <<>>]
          ELSE LET rest == LetBindings(Tail(bs), st)
               IN IF rest.err # "" THEN rest
                  ELSE [err |-> "", msg |-> <<>>,
                        codes |-> <<<<"let ">> \o bs[1].s \o <<" = ">> \o v.code
                                    \o <<";">>>> \o rest.codes]

transpileLet(e, precedence, st) ==
  IF e.n = 1
  THEN LET v == transpileExpr(e.k[1], 0, st)
       IN IF v.err # "" THEN v
          ELSE Ret(maybeParenthesize(
                 <<"(() => {", NL, IND, IND, "let ">> \o e.s \o <<" = ">> \o v.code
                   \o <<";", NL, IND, IND, "return ">> \o e.s
                   \o <<";", NL, IND, "})()">>,
                 precedence, 0))
  ELSE IF e.n = 2
  THEN LET bs == LetBindings(e.k, st)
       IN IF bs.err # "" THEN Throw(bs.err, bs.msg)
          ELSE Ret(maybeParenthesize(
                 <<"(() => {", NL, IND, IND>>
                   \o JoinTexts(bs.codes, <<NL, IND, IND>>)
                   \o <<NL, IND, "})()">>,
                 precedence, 0))
  ELSE Throw("Error", <<"Invalid let form: ">> \o e.s)

transpileObjectExpr(e, precedence, st) ==
  IF e.t = "if"
  THEN LET cond     == transpileExpr(e.k[1], 0, st)
           thenExpr == transpileExpr(e.k[2], 0, st)
           elseExpr == IF e.n = 1 THEN transpileExpr(e.k[3], 0, st)
                       ELSE Ret(<<"null">>)
       IN IF cond.err # "" THEN cond
          ELSE IF thenExpr.err # "" THEN thenExpr
          ELSE IF elseExpr.err # "" THEN elseExpr
          ELSE Ret(maybeParenthesize(
                     cond.code \o <<" ? ">> \o thenExpr.code \o <<" : ">> \o elseExpr.code,
                     precedence, 3))
  ELSE transpileLet(e, precedence, st)

transpileExpr(e, precedence, st) ==
  CASE e.t = "null" -> Ret(<<"null">>)
    [] e.t = "arr"  -> transpileArrayExpr(e, precedence, st)
    [] e.t \in {"if", "let"} -> transpileObjectExpr(e, precedence, st)
    [] e.t = "str"  ->
         \* this.functions[expr] || this.globals[expr] || this.params[expr]
         IF e.s \in st.functions \cup st.globals \cup st.params \cup ObjectPrototypeKeys
         THEN Ret(transpileIdentifier(e.s))
         ELSE IF getJavaScriptIdentifier(e.s) # <<>>
         THEN Ret(transpileIdentifier(getJavaScriptIdentifier(e.s)))
         ELSE Ret(JSONString(e.s))
    [] e.t = "num"  -> Ret(NumStr(e.n))
    [] e.t = "bool" -> Ret(IF e.n = 1 THEN <<"true">> ELSE <<"false">>)
    [] OTHER -> Throw("Error", <<"Cannot transpile: ">>)

-----------------------------------------------------------------------------
(* execute(jsCode): the host evaluation of emitted text, for integer,     *)
(* string, boolean and null values: expressions (literals, templates,      *)
(* variables, calls, unary and binary operators, conditionals) and units   *)
(* of let and function declarations.  A value is [ok, t, n, s]; ok = FALSE *)
(* stands for a result outside the modelled range (a non-integer or an     *)
(* integer beyond MaxAbs, a division by zero, an unmodelled coercion) or a *)
(* text the evaluator rejects or that throws.                              *)

MaxAbs == 10000

NumV(n) == [ok |-> TRUE,  t |-> "num", n |-> n, s |-> <<>>]
StrV(s) == [ok |-> TRUE,  t |-> "str", n |-> 0, s |-> s]
NoV     == [ok |-> FALSE, t |-> "none", n |-> 0, s |-> <<>>]

InRange(n) == IF -MaxAbs <= n /\ n <= MaxAbs THEN NumV(n) ELSE NoV

Abs(n) == IF n < 0 THEN -n ELSE n

RECURSIVE PowV(_, _)
\* b ** e for integers, e >= 0
PowV(b, e) ==
  IF e = 0 THEN NumV(1)
  ELSE IF b \in {0, 1} THEN NumV(b)
  ELSE IF b = -1 THEN NumV(IF e % 2 = 0 THEN 1 ELSE -1)
  ELSE LET r == PowV(b, e - 1) IN IF r.ok THEN InRange(r.n * b) ELSE NoV

BoolV(b) == [ok |-> TRUE, t |-> "bool", n |-> IF b THEN 1 ELSE 0, s |-> <<>>]
NullV    == [ok |-> TRUE, t |-> "null", n |-> 0, s |-> <<>>]

\* ToBoolean of a value
Truthy(v) ==
  CASE v.t = "num"  -> v.n # 0
    [] v.t = "str"  -> v.s # <<>>
    [] v.t = "bool" -> v.n = 1
    [] OTHER        -> FALSE

\* ToString of a value
ToStringV(v) ==
  CASE v.t = "num"  -> NumStr(v.n)
    [] v.t = "bool" -> IF v.n = 1 THEN <<"true">> ELSE <<"false">>
    [] v.t = "null" -> <<"null">>
    [] OTHER        -> v.s

\* the host binary operators on two values; ToNumber of a boolean is 0 or 1
\* and of null is 0, ToNumber of a string is outside the modelled range
ApplyOp(op, a, b) ==
  IF ~ a.ok \/ ~ b.ok THEN NoV
  ELSE IF op = "+" /\ (a.t = "str" \/ b.t = "str")
  THEN StrV(ToStringV(a) \o ToStringV(b))
  ELSE IF op = "===" THEN BoolV(a.t = b.t /\ a.n = b.n /\ a.s = b.s)
  ELSE IF op = "!==" THEN BoolV(~ (a.t = b.t /\ a.n = b.n /\ a.s = b.s))
  ELSE IF a.t = "str" \/ b.t = "str" THEN NoV
  ELSE CASE op = "+" -> InRange(a.n + b.n)
         [] op = "-" -> InRange(a.n - b.n)
         [] op = "*" -> InRange(a.n * b.n)
         [] op = "/" -> IF b.n # 0 /\ Abs(a.n) % Abs(b.n) = 0
                        THEN NumV((Abs(a.n) \div Abs(b.n))
                                  * (IF (a.n < 0) = (b.n < 0) THEN 1 ELSE -1))
                        ELSE NoV
         [] op = "%" -> IF b.n # 0
                        THEN NumV((Abs(a.n) % Abs(b.n)) * (IF a.n < 0 THEN -1 ELSE 1))
                        ELSE NoV
         [] op = "**" -> IF b.n >= 0 THEN PowV(a.n, b.n) ELSE NoV
         [] op = "<"  -> BoolV(a.n < b.n)
         [] op = ">"  -> BoolV(a.n > b.n)
         [] op = "<=" -> BoolV(a.n <= b.n)
         [] op = ">=" -> BoolV(a.n >= b.n)
         [] OTHER -> NoV

\* the host unary operators
ApplyUnary(op, a) ==
  IF ~ a.ok THEN NoV
  ELSE IF op = "!" THEN BoolV(~ Truthy(a))
  ELSE IF a.t = "str" THEN NoV
  ELSE NumV(IF op = "-" THEN -a.n ELSE a.n)

\* binding strength of the host binary operators
JSPrec(op) ==
  CASE op = "||" -> 4
    [] op = "&&" -> 5
    [] op \in {"===", "!=="} -> 8
    [] op \in {"<", ">", "<=", ">="} -> 9
    [] op \in {"+", "-"} -> 11
    [] op \in {"*", "/", "%"} -> 12
    [] OTHER -> 13

BinaryOps == {"||", "&&", "===", "!==", "<", ">", "<=", ">=", "+", "-", "*", "/", "%", "**"}

\* atoms that are not identifier names
NotNames ==
  BinaryOps \cup Digits
    \cup {"(", ")", "[", "]", "{", "}", ".", ",", ", ", ";", " ", IND, NL, Q, BS, BT,
          SQ, DOL, "!", " ? ", " : ", " = ", "let ", "return ", "function ", ") {",
          "typeof ", "undefined", "(() => {", "})()", "main()", "function main() {"}

RECURSIVE SkipWs(_, _)
SkipWs(t, p) == IF p <= Len(t) /\ t[p] \in {" ", IND, NL} THEN SkipWs(t, p + 1) ELSE p

\* a scan result: ok, the value, and the position after the text consumed
PR(v, p) == [ok |-> v.ok, v |-> v, p |-> p]
PFail    == [ok |-> FALSE, v |-> NoV, p |-> 0]

RECURSIVE ScanNumber(_, _, _)
ScanNumber(t, p, acc) ==
  IF p <= Len(t) /\ t[p] \in Digits
  THEN IF acc > MaxAbs THEN PFail ELSE ScanNumber(t, p + 1, 
            acc * 10 + (CHOOSE d \in 0..9 : DigitChars[d + 1] = t[p]))
  ELSE PR(InRange(acc), p)

\* the character an escape sequence \c denotes
Unescape(c) == IF c = "n" THEN NL ELSE c

RECURSIVE ScanString(_, _, _)
\* a double-quoted literal, from the position after its opening quote
ScanString(t, p, acc) ==
  IF p > Len(t) THEN PFail
  ELSE IF t[p] = Q THEN PR(StrV(acc), p + 1)
  ELSE IF t[p] = NL THEN PFail
  ELSE IF t[p] = BS
  THEN IF p + 1 > Len(t) THEN PFail
       ELSE ScanString(t, p + 2, Append(acc, Unescape(t[p + 1])))
  ELSE ScanString(t, p + 1, Append(acc, t[p]))

MaxCallDepth == 12

\* the scope an expression is evaluated in: the variables of the running
\* function, the variables of the script, the declared functions
\* (name :> [params, body]) and the calls that have returned
\* (<<name, arguments, globals>> :> value)
NoEnv == [locals |-> <<>>, globals |-> <<>>, funs |-> <<>>, memo |-> <<>>]

\* the value of a variable; a name that is no variable is outside the range
Lookup(env, a) ==
  IF a \in DOMAIN env.locals THEN env.locals[a]
  ELSE IF a \in DOMAIN env.globals THEN env.globals[a]
  ELSE NoV

\* an evaluation result: ok (the text parsed and its evaluation did not throw),
\* the value, the position after the text consumed, the scope afterwards,
\* whether the expression is an unparenthesized unary expression, and, when
\* the evaluation stopped at a call that has not returned yet, that call.  An
\* operand that is not live (the unselected branch of a conditional, the
\* operand a logical operator skips) is parsed and not evaluated.
PE(v, p, env) ==
  [ok |-> v.ok, v |-> v, p |-> p, e |-> env, u |-> FALSE, need |-> <<>>]
PEFail == [ok |-> FALSE, v |-> NoV, p |-> 0, e |-> NoEnv, u |-> FALSE, need |-> <<>>]
Need(call) == [PEFail EXCEPT !.need = call]
Lit(r, env) == IF r.ok THEN PE(r.v, r.p, env) ELSE PEFail
Unary(r) == IF r.ok THEN [r EXCEPT !.u = TRUE] ELSE r

\* a statement line without its trailing semicolons
RECURSIVE StripSemicolons(_)
StripSemicolons(s) ==
  IF Len(s) > 0 /\ Last(s) = ";" THEN StripSemicolons(Front(s)) ELSE s

RECURSIVE ParsePrimary(_, _, _, _), ParseUnary(_, _, _, _), ParseBinary(_, _, _, _, _),
          ClimbRest(_, _, _, _), ParseConditional(_, _, _, _), ParseArgs(_, _, _, _, _),
          ScanTemplate(_, _, _, _, _), ExecLines(_, _, _),
          Combine(_, _, _, _, _, _), Branches(_, _, _), ElseBranch(_, _, _, _)

\* a template literal, from the position after its opening backtick; a hole
\* ${...} runs to the next closing brace
ScanHole(t, j, acc, r, live) ==
  IF ~ r.ok THEN r
  ELSE IF SkipWs(t, r.p) # j THEN PEFail
  ELSE ScanTemplate(t, j + 1, acc \o ToStringV(r.v), r.e, live)

ScanTemplate(t, p, acc, env, live) ==
  IF p > Len(t) THEN PEFail
  ELSE IF t[p] = BT THEN PE(StrV(acc), p + 1, env)
  ELSE IF t[p] = BS
  THEN IF p + 1 > Len(t) THEN PEFail
       ELSE ScanTemplate(t, p + 2, Append(acc, Unescape(t[p + 1])), env, live)
  ELSE IF t[p] = DOL /\ p + 1 <= Len(t) /\ t[p + 1] = "{"
  THEN IF ~ \E j \in (p + 2)..Len(t) : t[j] = "}" THEN PEFail
       ELSE LET j == CHOOSE j \in (p + 2)..Len(t) :
                       t[j] = "}" /\ \A i \in (p + 2)..(j - 1) : t[i] # "}"
            IN ScanHole(t, j, acc,
                        ParseConditional(SubSeq(t, 1, j - 1), p + 2, env, live), live)
  ELSE ScanTemplate(t, p + 1, Append(acc, t[p]), env, live)

\* the arguments of a call, from the position after its opening parenthesis:
\* [ok, vs, p, e, need]
NoArgs(need) == [ok |-> FALSE, vs |-> <<>>, p |-> 0, e |-> NoEnv, need |-> need]
MoreArgs(t, r, live, acc) ==
  IF ~ r.ok THEN NoArgs(r.need)
  ELSE IF r.p > Len(t) THEN NoArgs(<<>>)
  ELSE IF t[r.p] = ")"
  THEN [ok |-> TRUE, vs |-> Append(acc, r.v), p |-> r.p + 1, e |-> r.e, need |-> <<>>]
  ELSE IF t[r.p] = ", " THEN ParseArgs(t, r.p + 1, r.e, live, Append(acc, r.v))
  ELSE NoArgs(<<>>)

ParseArgs(t, p, env, live, acc) ==
  IF p <= Len(t) /\ t[p] = ")" /\ acc = <<>>
  THEN [ok |-> TRUE, vs |-> <<>>, p |-> p + 1, e |-> env, need |-> <<>>]
  ELSE MoreArgs(t, ParseConditional(t, p, env, live), live, acc)

\* f(vs): the value the call returned, or the call itself when it has not
\* run yet.  The result of a call depends on its arguments and on the
\* script's variables.
Invoke(f, vs, p, env) ==
  IF \/ f \notin DOMAIN env.funs
     \/ f \in DOMAIN env.locals \cup DOMAIN env.globals
     \/ Len(vs) < Len(env.funs[f].params)
  THEN PEFail
  ELSE IF <<f, vs, env.globals>> \in DOMAIN env.memo
  THEN PE(env.memo[<<f, vs, env.globals>>], p, env)
  ELSE Need(<<f, vs, env.globals>>)

CallWith(f, a, live) ==
  IF ~ a.ok THEN Need(a.need)
  ELSE IF ~ live THEN PE(NullV, a.p, a.e)
  ELSE Invoke(f, a.vs, a.p, a.e)

CloseParen(t, r) ==
  IF r.ok /\ SkipWs(t, r.p) <= Len(t) /\ t[SkipWs(t, r.p)] = ")"
  THEN [r EXCEPT !.p = SkipWs(t, r.p) + 1, !.u = FALSE]
  ELSE IF ~ r.ok THEN r
  ELSE PEFail

ParsePrimary(t, p0, env, live) ==
  LET p == SkipWs(t, p0)
  IN IF p > Len(t) THEN PEFail
     ELSE IF t[p] = "(" THEN CloseParen(t, ParseConditional(t, p + 1, env, live))
     ELSE IF t[p] \in Digits THEN Lit(ScanNumber(t, p, 0), env)
     ELSE IF t[p] = Q THEN Lit(ScanString(t, p + 1, <<>>), env)
     ELSE IF t[p] = BT THEN ScanTemplate(t, p + 1, <<>>, env, live)
     ELSE IF t[p] \in {"true", "false"} THEN PE(BoolV(t[p] = "true"), p + 1, env)
     ELSE IF t[p] = "null" THEN PE(NullV, p + 1, env)
     ELSE IF t[p] \in NotNames THEN PEFail
     ELSE IF p + 1 <= Len(t) /\ t[p + 1] = "("
     THEN CallWith(t[p], ParseArgs(t, p + 2, env, live, <<>>), live)
     ELSE PE(IF live THEN Lookup(env, t[p]) ELSE NullV, p + 1, env)

\* --name and ++name: the variable is written, the new value is the result;
\* a write to a variable of the script is outside the range
Update(op, a, p, env, live) ==
  IF ~ live THEN Unary(PE(NullV, p, env))
  ELSE IF a \notin DOMAIN env.locals \/ env.locals[a].t = "str" THEN PEFail
  ELSE LET v == InRange(env.locals[a].n + (IF op = "-" THEN -1 ELSE 1))
       IN IF v.ok THEN Unary(PE(v, p, [env EXCEPT !.locals[a] = v])) ELSE PEFail

Negated(op, r, live) ==
  IF ~ r.ok THEN r
  ELSE Unary(PE(IF live THEN ApplyUnary(op, r.v) ELSE NullV, r.p, r.e))

\* two adjacent signs are one token, the update operator, whose operand has to
\* be a variable
ParseUnary(t, p0, env, live) ==
  LET p == SkipWs(t, p0)
  IN IF p > Len(t) THEN PEFail
     ELSE IF t[p] \in {"-", "+"} /\ p + 1 <= Len(t) /\ t[p + 1] = t[p]
     THEN IF /\ p + 2 <= Len(t)
             /\ t[p + 2] \notin NotNames \cup {"true", "false", "null"}
             /\ ~ (p + 3 <= Len(t) /\ t[p + 3] \in {"(", ".", "["})
          THEN Update(t[p], t[p + 2], p + 3, env, live)
          ELSE PEFail
     ELSE IF t[p] \in {"-", "+", "!"}
     THEN Negated(t[p], ParseUnary(t, p + 1, env, live), live)
     ELSE ParsePrimary(t, p, env, live)

\* lhs op rhs; a logical operator yields one of its operands
Combine(t, op, lhs, rhs, minPrec, live) ==
  IF ~ rhs.ok THEN rhs
  ELSE ClimbRest(t,
         PE(IF ~ live THEN NullV
            ELSE IF op = "&&" THEN (IF Truthy(lhs.v) THEN rhs.v ELSE lhs.v)
            ELSE IF op = "||" THEN (IF Truthy(lhs.v) THEN lhs.v ELSE rhs.v)
            ELSE ApplyOp(op, lhs.v, rhs.v),
            rhs.p, rhs.e),
         minPrec, live)

\* precedence climbing: the operators after lhs that bind at least minPrec;
\* the base of ** may not be an unparenthesized unary expression
ClimbRest(t, lhs, minPrec, live) ==
  IF ~ lhs.ok THEN lhs
  ELSE LET p == SkipWs(t, lhs.p)
       IN IF p <= Len(t) /\ t[p] \in BinaryOps /\ JSPrec(t[p]) >= minPrec
          THEN IF t[p] = "**" /\ lhs.u THEN PEFail
               ELSE Combine(t, t[p], lhs,
                      ParseBinary(t, p + 1,
                        IF t[p] = "**" THEN JSPrec(t[p]) ELSE JSPrec(t[p]) + 1,
                        lhs.e,
                        /\ live
                        /\ (t[p] = "&&" => Truthy(lhs.v))
                        /\ (t[p] = "||" => ~ Truthy(lhs.v))),
                      minPrec, live)
          ELSE lhs

ParseBinary(t, p, minPrec, env, live) ==
  ClimbRest(t, ParseUnary(t, p, env, live), minPrec, live)

\* c ? th : el after all three are parsed
Selected(c, th, el, live) ==
  IF ~ el.ok THEN el
  ELSE PE(IF ~ live THEN NullV ELSE IF Truthy(c.v) THEN th.v ELSE el.v, el.p, el.e)

ElseBranch(t, c, th, live) ==
  IF ~ th.ok THEN th
  ELSE IF th.p > Len(t) \/ t[th.p] # " : " THEN PEFail
  ELSE Selected(c, th,
                ParseConditional(t, th.p + 1, th.e, live /\ ~ Truthy(c.v)), live)

Branches(t, c, live) ==
  IF ~ c.ok THEN c
  ELSE IF c.p <= Len(t) /\ t[c.p] = " ? "
  THEN ElseBranch(t, c, ParseConditional(t, c.p + 1, c.e, live /\ Truthy(c.v)), live)
  ELSE c

\* a conditional expression: the condition binds weaker than every binary
\* operator, the branches are conditional expressions themselves
ParseConditional(t, p, env, live) == Branches(t, ParseBinary(t, p, 0, env, live), live)

\* a whole text as one expression
ParseFull(t, env) ==
  LET r == ParseConditional(t, 1, env, TRUE)
  IN IF r.ok /\ SkipWs(t, r.p) # Len(t) + 1 THEN PEFail ELSE r

\* the statements of a function body from line i.  A body that
\* ends without a return statement yields undefined, outside the range.
Declared(lines, i, a, r) ==
  IF ~ r.ok THEN r
  ELSE ExecLines(lines, i + 1, [r.e EXCEPT !.locals = (a :> r.v) @@ @])

Evaluated(lines, i, r) ==
  IF ~ r.ok THEN r ELSE ExecLines(lines, i + 1, r.e)

ExecLine(lines, i, s, env) ==
  IF Len(s) > 1 /\ s[1] = "return " THEN ParseFull(Tail(s), env)
  ELSE IF Len(s) > 3 /\ s[1] = "let " /\ s[3] = " = "
  THEN IF s[2] \in DOMAIN env.locals THEN PEFail
       ELSE Declared(lines, i, s[2], ParseFull(SubSeq(s, 4, Len(s)), env))
  ELSE Evaluated(lines, i, ParseFull(s, env))

ExecLines(lines, i, env) ==
  IF i > Len(lines) THEN PEFail
  ELSE ExecLine(lines, i, StripSemicolons(Trim(lines[i])), env)

\* eval of an expression text
EvalJS(t) ==
  LET r == ParseFull(t, NoEnv)
  IN IF r.ok THEN r.v ELSE NoV

\* a line that opens a function declaration, and the line that closes it
IsFunctionHead(l) == Len(l) > 0 /\ l[1] \in {"function ", "function main() {"}
FunctionEnd(lines, i) ==
  IF \E j \in (i + 1)..Len(lines) : lines[j] = <<"}">>
  THEN CHOOSE j \in (i + 1)..Len(lines) :
         lines[j] = <<"}">> /\ \A k \in (i + 1)..(j - 1) : lines[k] # <<"}">>
  ELSE Len(lines)

\* the function declarations of a script, hoisted: name :> [params, body];
\* of two declarations of one name the later stands
FunctionsOf(lines) ==
  LET heads == {i \in 1..Len(lines) : IsFunctionHead(lines[i])}
      nameOf(i) == IF lines[i][1] = "function " THEN lines[i][2] ELSE "main"
      decl(i) ==
        [params |-> IF lines[i][1] = "function "
                    THEN SelectSeq(SubSeq(lines[i], 4, Len(lines[i]) - 1),
                                   LAMBDA a : a # ", ")
                    ELSE <<>>,
         body   |-> SubSeq(lines, i + 1, FunctionEnd(lines, i) - 1)]
  IN [nm \in {nameOf(i) : i \in heads} |->
        decl(CHOOSE i \in heads :
               nameOf(i) = nm /\ \A j \in heads : nameOf(j) = nm => j <= i)]

RECURSIVE RunScript(_, _, _, _)
TopDeclared(lines, i, a, r, last) ==
  IF ~ r.ok THEN r
  ELSE RunScript(lines, i + 1, [r.e EXCEPT !.globals = (a :> r.v) @@ @], last)

TopEvaluated(lines, i, r) ==
  IF ~ r.ok THEN r ELSE RunScript(lines, i + 1, r.e, r.v)

TopStatement(lines, i, s, env, last) ==
  IF Len(s) > 3 /\ s[1] = "let " /\ s[3] = " = "
  THEN IF s[2] \in DOMAIN env.globals \cup DOMAIN env.funs THEN PEFail
       ELSE TopDeclared(lines, i, s[2], ParseFull(SubSeq(s, 4, Len(s)), env), last)
  ELSE IF s = <<"main()">>
  THEN TopEvaluated(lines, i, Invoke("main", <<>>, 0, env))
  ELSE TopEvaluated(lines, i, ParseFull(s, env))

\* the statements of a script from line i; last is the value of the latest
\* expression statement.  A line that is neither a declaration of the forms
\* the transpiler emits for globals and functions nor an expression of the
\* evaluator (a comment, an import, a require) is outside the range.
RunScript(lines, i, env, last) ==
  IF i > Len(lines) THEN PE(last, 0, env)
  ELSE IF lines[i] = <<>> THEN RunScript(lines, i + 1, env, last)
  ELSE IF IsFunctionHead(lines[i])
  THEN RunScript(lines, FunctionEnd(lines, i) + 1, env, last)
  ELSE TopStatement(lines, i, StripSemicolons(lines[i]), env, last)

\* the body of call = <<f, vs, globals>>, run with the parameters as its only
\* local variables; of two parameters of one name the later holds the argument
RunCall(call, funs, memo) ==
  ExecLines(funs[call[1]].body, 1,
    [funs |-> funs, memo |-> memo, globals |-> call[3],
     locals |-> [a \in Range(funs[call[1]].params) |->
                   call[2][CHOOSE k \in DOMAIN funs[call[1]].params :
                             /\ funs[call[1]].params[k] = a
                             /\ \A j \in DOMAIN funs[call[1]].params :
                                  funs[call[1]].params[j] = a => j <= k]]])

\* the run of a script as a stack of calls in progress: the innermost call
\* runs until it returns or needs a call that has not returned; a stack of
\* more than MaxCallDepth calls is outside the range
RECURSIVE Drive(_, _, _, _)
Driven(lines, funs, memo, stack, r) ==
  IF r.ok
  THEN IF stack = <<>> THEN r.v
       ELSE Drive(lines, funs, (Last(stack) :> r.v) @@ memo, Front(stack))
  ELSE IF r.need = <<>> \/ Len(stack) >= MaxCallDepth THEN NoV
  ELSE Drive(lines, funs, memo, Append(stack, r.need))

Drive(lines, funs, memo, stack) ==
  Driven(lines, funs, memo, stack,
         IF stack = <<>>
         THEN RunScript(lines, 1, [NoEnv EXCEPT !.funs = funs, !.memo = memo], NoV)
         ELSE RunCall(Last(stack), funs, memo))

\* eval(jsCode) of a compilation unit
execute(jsCode) ==
  Drive(SplitLines(jsCode), FunctionsOf(SplitLines(jsCode)), <<>>, <<>>)

-----------------------------------------------------------------------------
(* A fresh instance (the constructor) and a transpile call not yet made.   *)

Absent == [t |-> "absent", n |-> 0, s |-> <<>>, k |-> <<>>]   \* a key not given
NoProgram == [imports |-> <<>>, require |-> <<>>, globals |-> <<>>,
              functions |-> <<>>, main |-> Absent]
NoPending == [filePath |-> <<>>, resolvedPath |-> <<>>, from |-> ""]
NoError   == [err |-> "", msg |-> <<>>, at |-> ""]

InstanceInit ==
  /\ functions = {}
  /\ globals = {}
  /\ params = {}
  /\ baseDir = <<".">>
  /\ importedModules = <<>>

ProcessIdle ==
  /\ ast = NoProgram
  /\ idx = 0
  /\ pending = NoPending
  /\ yaplModules = <<>>
  /\ parts = <<>>
  /\ globalDecls = <<>>
  /\ functionDecls = <<>>
  /\ output = <<>>
  /\ error = NoError
  /\ oldParams = {}
  /\ fsReads = <<>>
  /\ lowered = <<>>
  /\ runs = 0
  /\ fresh = <<>>

Registry == [functions |-> functions, globals |-> globals, params |-> params]

instanceVars == <<functions, globals, params, baseDir, importedModules>>
processVars  == <<ast, idx, pending, yaplModules, parts, globalDecls, functionDecls,
                  output, error, oldParams, fsReads, lowered, runs, fresh>>

-----------------------------------------------------------------------------
(* The expression harness: transpileExpr(node, 0) on a fresh instance,     *)
(* then execute on the text it returned.                                   *)

LowerExpr ==
  /\ pc = "ready"
  /\ frag' = transpileExpr(node, 0, Registry)
  /\ pc' = "lowered"
  /\ UNCHANGED <<instanceVars, processVars, node, value>>

ExecuteExpr ==
  /\ pc = "lowered"
  /\ frag.err = ""
  /\ value' = EvalJS(frag.code)
  /\ pc' = "executed"
  /\ UNCHANGED <<instanceVars, processVars, node, frag>>

NextExpr == LowerExpr \/ ExecuteExpr

InitExpr(inputs) ==
  /\ InstanceInit
  /\ ProcessIdle
  /\ pc = "ready"
  /\ node \in inputs
  /\ frag = Ret(<<>>)
  /\ value = NoV

SeqsUpTo(S, n) == UNION {[1..m -> S] : m \in 0..n}

\* --- sequences dispatched by their head -----------------------------------
MaxArgs == 3

UnsupportedOperators == {"^", "<<", "==="}

SeqInputs ==
  LET heads == {Str(<<o>>) : o \in UnsupportedOperators}
                 \cup {Str(<<".">>), Str(<<"+">>), Str(<<"f">>),
                       Str(<<".", "Math", ".", "max">>),
                       Num(1), Num(2), Null, Bool(TRUE), Arr(<<>>)}
      operands == {Num(1), Num(2), Str(<<"length">>), Str(<<"a", "-", "b">>),
                   Str(<<".", "obj">>)}
  IN {Arr(<<>>)} \cup {Arr(<<h>> \o args) : h \in heads, args \in SeqsUpTo(operands, MaxArgs)}

SpecSeq == InitExpr(SeqInputs) /\ [][NextExpr]_vars

\* --- strings in value position ----------------------------------------------
ValueStrings ==
  {<<"x">>, <<"f">>, <<"gx">>, <<"hello world">>, <<>>, <<"toString">>,
   <<"constructor">>, <<".", "Math", ".", "PI">>, <<".", "x">>, <<".", "a", "-", "b">>}

\* a string alone, as the argument of a call, and as the operand of an operator
ValueInputs ==
  {Str(s) : s \in ValueStrings}
    \cup {Arr(<<Str(<<"f">>), Str(s)>>) : s \in ValueStrings}
    \cup {Op("!", <<Str(s)>>) : s \in ValueStrings}

\* the instance has registered nothing, or a function f, a global gx, a
\* parameter x
InitValue ==
  /\ functions \in {{}, {<<"f">>}}
  /\ globals \in {{}, {<<"gx">>}}
  /\ params \in {{}, {<<"x">>}}
  /\ baseDir = <<".">>
  /\ importedModules = <<>>
  /\ ProcessIdle
  /\ pc = "ready"
  /\ node \in ValueInputs
  /\ frag = Ret(<<>>)
  /\ value = NoV

SpecValue == InitValue /\ [][NextExpr]_vars

\* --- arithmetic trees -------------------------------------------------------
MaxLit == 2

ArithOps == {"+", "-", "*", "/", "%", "**"}
\* the trees of depth at most 3
ArithDepth3 ==
  LET d1 == {Num(n) : n \in 1..MaxLit}
      d2 == d1 \cup {Op(o, <<a, b>>) : o \in ArithOps, a \in d1, b \in d1}
  IN d1 \cup {Op(o, <<a, b>>) : o \in ArithOps, a \in d2, b \in d2}

SpecArith == InitExpr(ArithDepth3) /\ [][NextExpr]_vars

\* --- applications of '+' ----------------------------------------------------
MaxPlusArgs == 3

LiteralOperands ==
  {Num(1), Num(2), Str(<<"a">>), Str(<<"a", Q>>), Str(<<BS>>), Str(<<NL, "b">>)}
OperatorOperands ==
  {Op("*", <<Str(<<"2">>), Str(<<"3">>)>>), Op("-", <<Str(<<"a">>), Str(<<"b">>)>>)}

PlusInputs ==
  {Op("+", args) : args \in SeqsUpTo(LiteralOperands \cup OperatorOperands, MaxPlusArgs)
                            \ SeqsUpTo(LiteralOperands \cup OperatorOperands, 1)}

SpecPlus == InitExpr(PlusInputs) /\ [][NextExpr]_vars

\* --- conditionals, alone and as operands ------------------------------------
\* a call of a function that does not exist: evaluating it throws
Throwing == Arr(<<Str(<<"fa">>)>>)

Conds ==
  {Bool(TRUE), Bool(FALSE), Num(0), Str(<<"a">>), Null,
   Op("<", <<Num(5), Num(10)>>), Op(">", <<Num(5), Num(10)>>),
   Op("||", <<Bool(FALSE), Bool(TRUE)>>),
   IfForm(Bool(TRUE), Num(0), Num(1)), IfForm(Bool(FALSE), Num(0), Num(1))}

CondForms ==
  {IfForm(c, th, el) :
     c \in Conds,
     th \in {Str(<<"yes">>), IfForm(Bool(FALSE), Num(1), Num(2)), Throwing},
     el \in {Str(<<"no">>), Throwing}}
  \cup {IfNoElse(c, Str(<<"yes">>)) : c \in Conds}

CondOps == {"||", "&&", "==", "!=", "<", ">", "<=", ">=", "+", "-", "*", "/"}

CondOperands ==
  LET ifs == {IfForm(Bool(b), Num(2), Num(3)) : b \in BOOLEAN}
      others == {Num(0), Num(6)}
  IN {Op(o, <<x, y>>) : o \in CondOps, x \in ifs, y \in others}
     \cup {Op(o, <<x, y>>) : o \in CondOps, x \in others, y \in ifs}

SpecCond == InitExpr(CondForms \cup CondOperands) /\ [][NextExpr]_vars

-----------------------------------------------------------------------------
(* Paths (Node's path module) and the files on disk.  A path is the        *)
(* sequence of its segments; an absolute path starts with the empty        *)
(* segment, as "/p/a.yapl".split("/") does.                                 *)

isAbsolute(p) == Len(p) > 0 /\ p[1] = ""

RECURSIVE NormalizeSegs(_, _)
\* resolution of "." and ".." segments; acc is the path so far
NormalizeSegs(segs, acc) ==
  IF Len(segs) = 0 THEN acc
  ELSE IF segs[1] \in {".", ""} THEN NormalizeSegs(Tail(segs), acc)
  ELSE IF segs[1] = ".."
  THEN NormalizeSegs(Tail(segs), IF Len(acc) > 1 THEN Front(acc) ELSE acc)
  ELSE NormalizeSegs(Tail(segs), Append(acc, segs[1]))

\* process.cwd() is /p

\* path.resolve(base, p)
pathResolve(base, p) ==
  IF isAbsolute(p) THEN NormalizeSegs(Tail(p), <<"">>)
  ELSE IF isAbsolute(base) THEN NormalizeSegs(Tail(base) \o p, <<"">>)
  ELSE NormalizeSegs(<<"p">> \o base \o p, <<"">>)

\* path.isAbsolute(filePath) ? filePath : path.resolve(this.baseDir, filePath)
ResolvedPath(bd, filePath) ==
  IF isAbsolute(filePath) THEN filePath ELSE pathResolve(bd, filePath)

dirname(p) == Front(p)

PathText(p) == JoinTexts([i \in 1..Len(p) |-> <<p[i]>>], <<"/">>)

\* the file names ending in '.yapl'
endsWithYapl(p) == Len(p) > 0 /\ Last(p) \in {"a.yapl", "b.yapl", "c.yapl", "bad.yapl", "gone.yapl"}

Name(a) == <<a>>
GlobalDef(name, v) == [name |-> Name(name), value |-> v]
FunctionDef(name, ps, body) ==
  [name |-> Name(name), params |-> [i \in 1..Len(ps) |-> Name(ps[i])], body |-> body]
ImportDef(from, d, named, alias) ==
  [from |-> from, default |-> d, named |-> named, alias |-> alias]
RequireDef(module, d, named, alias) ==
  [module |-> module, default |-> d, named |-> named, alias |-> alias]
Program(imports, require, gs, fs, main) ==
  [imports |-> imports, require |-> require, globals |-> gs, functions |-> fs,
   main |-> main]

\* the files fs.readFileSync finds; decodes = FALSE: yamlLib.load throws on it.
\* /p/lib/b.yapl imports c.yapl of its own directory.
Files ==
  (<<"", "p", "a.yapl">> :>
     [decodes |-> TRUE,
      doc |-> Program(<<>>, <<>>, <<GlobalDef("ga", Num(1))>>,
                <<FunctionDef("fa", <<"x">>,
                              Arr(<<Op("+", <<Str(<<"x">>), Str(<<"ga">>)>>)>>))>>,
                Arr(<<Arr(<<Str(<<"fa">>), Num(1)>>)>>))])
    @@ (<<"", "p", "lib", "b.yapl">> :>
     [decodes |-> TRUE,
      doc |-> Program(<<ImportDef(<<"c.yapl">>, <<>>, <<Name("gc")>>, <<>>)>>, <<>>, <<>>,
                <<FunctionDef("fb", <<>>, Num(2))>>, Absent)])
    @@ (<<"", "p", "lib", "c.yapl">> :>
     [decodes |-> TRUE,
      doc |-> Program(<<>>, <<>>, <<GlobalDef("gc", Num(3))>>, <<>>, Absent)])
    @@ (<<"", "p", "c.yapl">> :>
     [decodes |-> TRUE,
      doc |-> Program(<<>>, <<>>, <<GlobalDef("gb", Num(4))>>, <<>>, Absent)])
    @@ (<<"", "p", "bad.yapl">> :> [decodes |-> FALSE, doc |-> NoProgram])

-----------------------------------------------------------------------------
(* Declarations.  Each operator returns the registry after the call next   *)
(* to the text returned or the exception thrown.                           *)

\* a value that is false in a condition
Falsy(e) ==
  \/ e.t \in {"absent", "null"}
  \/ (e.t = "num" /\ e.n = 0)
  \/ (e.t = "bool" /\ e.n = 0)
  \/ (e.t = "str" /\ e.s = <<>>)

\* a variant of GlobalDeclaration without `this.globals[name] = true`
GlobalDeclarationUnregistered(g, st, v) ==
  IF v.err # "" THEN [st |-> st, res |-> v]
  ELSE [st  |-> st,
        res |-> Ret(<<"let ">> \o g.name \o <<" = ">> \o v.code \o <<";">>)]

\* transpileGlobal after its value is lowered: v is the lowered value
GlobalDeclaration(g, st, v) ==
  IF v.err # "" THEN [st |-> st, res |-> v]
  ELSE [st  |-> [st EXCEPT !.globals = @ \cup {g.name}],
        res |-> Ret(<<"let ">> \o g.name \o <<" = ">> \o v.code \o <<";">>)]

transpileGlobal(g, st) == GlobalDeclaration(g, st, transpileExpr(g.value, 0, st))

\* body.map((expr, i) => i === last ? `return ${code};` : `${code};`), indented
ReturnLast(list) ==
  IF list.err # "" THEN Throw(list.err, list.msg)
  ELSE Ret(indent(JoinTexts(
         [i \in 1..Len(list.codes) |->
            IF i = Len(list.codes)
            THEN <<"return ">> \o list.codes[i] \o <<";">>
            ELSE list.codes[i] \o <<";">>],
         <<NL>>)))

\* `return ${this.transpileExpr(body)};`
ReturnOne(one) ==
  IF one.err # "" THEN one ELSE Ret(<<"return ">> \o one.code \o <<";">>)

\* the bodyCode of transpileFunction, lowered with the parameters registered
FunctionBody(body, st1) ==
  IF body.t = "arr"
  THEN IF Len(body.k) = 0 THEN Ret(<<"return ", "null", ";">>)
       ELSE ReturnLast(MapExprs(body.k, 0, st1))
  ELSE ReturnOne(transpileExpr(body, 0, st1))

\* transpileFunction after its body is lowered: this.params is restored only
\* when the body did not throw
FunctionDeclaration(func, old, st1, bodyCode) ==
  IF bodyCode.err # ""
  THEN [st |-> st1, res |-> bodyCode, oldParams |-> old]
  ELSE [st  |-> [st1 EXCEPT !.params = old],
        res |-> Ret(<<"function ">> \o func.name \o <<"(">>
                    \o JoinTexts(func.params, <<", ">>) \o <<") {", NL>>
                    \o bodyCode.code \o <<NL, "}">>),
        oldParams |-> old]

\* a variant of WithParams without `this.functions[name] = true`
WithParamsOnly(func, st) ==
  [st EXCEPT !.params = @ \cup Range(func.params)]

\* a variant of WithParams without `this.params[param] = true`
WithFunctionOnly(func, st) ==
  [st EXCEPT !.functions = @ \cup {func.name}]

\* the registry while the body of func is lowered
WithParams(func, st) ==
  [st EXCEPT !.functions = @ \cup {func.name}, !.params = @ \cup Range(func.params)]

transpileFunction(func, st) ==
  FunctionDeclaration(func, st.params, WithParams(func, st),
    FunctionBody(IF Falsy(func.body) THEN Arr(<<>>) ELSE func.body,
                 WithParams(func, st)))

RECURSIVE MapGlobals(_, _), MapFunctions(_, _, _)
\* the rest of ast.globals.map after the first callback returned r
MapGlobalsFrom(gs, r) ==
  IF r.res.err # ""
  THEN [st |-> r.st, err |-> r.res.err, msg |-> r.res.msg, codes |-> <<>>]
  ELSE [MapGlobals(Tail(gs), r.st) EXCEPT !.codes = <<r.res.code>> \o @]

\* ast.globals.map(g => this.transpileGlobal(g))
MapGlobals(gs, st) ==
  IF Len(gs) = 0 THEN [st |-> st, err |-> "", msg |-> <<>>, codes |-> <<>>]
  ELSE MapGlobalsFrom(gs, transpileGlobal(gs[1], st))

\* the rest of ast.functions.map after the first callback returned r
MapFunctionsFrom(fs, r) ==
  IF r.res.err # ""
  THEN [st |-> r.st, err |-> r.res.err, msg |-> r.res.msg, codes |-> <<>>,
        oldParams |-> r.oldParams]
  ELSE [MapFunctions(Tail(fs), r.st, r.oldParams) EXCEPT !.codes = <<r.res.code>> \o @]

\* ast.functions.map(f => this.transpileFunction(f))
MapFunctions(fs, st, old) ==
  IF Len(fs) = 0
  THEN [st |-> st, err |-> "", msg |-> <<>>, codes |-> <<>>, oldParams |-> old]
  ELSE MapFunctionsFrom(fs, transpileFunction(fs[1], st))

\* the binding list of a native import statement
ImportBindings(d) ==
  (IF d.default # <<>> THEN <<d.default>> ELSE <<>>)
    \o (IF Len(d.named) > 0
        THEN <<<<"{ ">> \o JoinTexts(d.named, <<", ">>) \o <<" }">>>>
        ELSE <<>>)

transpileImport(d) ==
  IF d.from = <<>>
  THEN Throw("Error", <<"Import definition must have a \"from\" property">>)
  ELSE IF endsWithYapl(d.from) THEN Ret(<<>>)
  ELSE IF d.alias # <<>> /\ Len(ImportBindings(d)) > 0
  THEN Throw("Error", <<"Cannot mix default/named imports with alias in the same import statement">>)
  ELSE LET bs == ImportBindings(d)
                   \o (IF d.alias # <<>> THEN <<<<"* as ">> \o d.alias>> ELSE <<>>)
       IN IF Len(bs) = 0
          THEN Throw("Error", <<"Import definition must have at least one of: default, named, or alias">>)
          ELSE Ret(<<"import ">> \o JoinTexts(bs, <<", ">>) \o <<" from ", SQ>>
                   \o PathText(d.from) \o <<SQ, ";">>)

\* the names a sub-program exports: its globals, then its functions
exportedNames(doc) ==
  [i \in 1..Len(doc.globals) |-> doc.globals[i].name]
    \o [i \in 1..Len(doc.functions) |-> doc.functions[i].name]

\* reads: the paths the call hands to fs.readFileSync
transpileRequire(d, bd) ==
  IF d.module = <<>>
  THEN [res |-> Throw("Error", <<"Require definition must have a \"module\" property">>),
        reads |-> <<>>]
  ELSE IF endsWithYapl(d.module)
  THEN LET resolvedPath == ResolvedPath(bd, d.module)
           object(nm) == <<"const ">> \o nm \o <<" = { ">>
                           \o JoinTexts(exportedNames(Files[resolvedPath].doc), <<", ">>)
                           \o <<" };">>
       IN [reads |-> <<resolvedPath>>,
           res |->
             IF resolvedPath \notin DOMAIN Files
             THEN Throw("Error", <<"ENOENT: no such file or directory">>)
             ELSE IF ~ Files[resolvedPath].decodes
             THEN Throw("YAMLException", <<"bad indentation">>)
             ELSE IF d.default # <<>> THEN Ret(object(d.default))
             ELSE IF Len(d.named) > 0 THEN Ret(<<>>)
             ELSE IF d.alias # <<>> THEN Ret(object(d.alias))
             ELSE Throw("Error", <<"YAPL require must specify at least one of: default, named, or alias">>)]
  ELSE LET requireExpr == <<"require(", SQ>> \o PathText(d.module) \o <<SQ, ")">>
       IN [reads |-> <<>>,
           res |->
             IF d.default # <<>>
             THEN Ret(<<"const ">> \o d.default \o <<" = ">> \o requireExpr \o <<";">>)
             ELSE IF Len(d.named) > 0
             THEN Ret(<<"const { ">> \o JoinTexts(d.named, <<", ">>) \o <<" } = ">>
                      \o requireExpr \o <<";">>)
             ELSE IF d.alias # <<>>
             THEN Ret(<<"const ">> \o d.alias \o <<" = ">> \o requireExpr \o <<";">>)
             ELSE Throw("Error", <<"Require definition must have at least one of: default, named, or alias">>)]

RECURSIVE MapImports(_), MapRequires(_, _)
\* for (const importDef of defs) { code = await transpileImport(importDef);
\*   if (importCode) parts.push(importCode) }
MapImports(defs) ==
  IF Len(defs) = 0 THEN [err |-> "", msg |-> <<>>, codes |-> <<>>]
  ELSE LET r == transpileImport(defs[1])
       IN IF r.err # "" THEN [err |-> r.err, msg |-> r.msg, codes |-> <<>>]
          ELSE LET rest == MapImports(Tail(defs))
               IN [rest EXCEPT !.codes = (IF r.code # <<>> THEN <<r.code>> ELSE <<>>) \o @]

MapRequires(defs, bd) ==
  IF Len(defs) = 0 THEN [err |-> "", msg |-> <<>>, codes |-> <<>>, reads |-> <<>>]
  ELSE LET r == transpileRequire(defs[1], bd)
       IN IF r.res.err # ""
          THEN [err |-> r.res.err, msg |-> r.res.msg, codes |-> <<>>, reads |-> r.reads]
          ELSE LET rest == MapRequires(Tail(defs), bd)
               IN [rest EXCEPT !.codes = (IF r.res.code # <<>> THEN <<r.res.code>> ELSE <<>>) \o @,
                               !.reads = r.reads \o @]

\* ast.imports.filter(imp => imp.from && !imp.from.endsWith('.yapl'))
NativeImports(doc) ==
  LET native(d) == d.from # <<>> /\ ~ endsWithYapl(d.from)
  IN SelectSeq(doc.imports, native)

\* ast.require.filter(req => req.module && !req.module.endsWith('.yapl'))
NativeRequires(doc) ==
  LET native(d) == d.module # <<>> /\ ~ endsWithYapl(d.module)
  IN SelectSeq(doc.require, native)

BlankAfter(defs) == IF Len(defs) > 0 THEN <<<<>>>> ELSE <<>>

\* transpileModule after the functions are lowered: parts.join('\n') and the
\* restored baseDir
ModuleJoined(doc, moduleBaseDir, bd, imps, reqs, gs, fs) ==
  IF fs.err # ""
  THEN [st |-> fs.st, baseDir |-> moduleBaseDir, res |-> Throw(fs.err, fs.msg)]
  ELSE [st |-> fs.st, baseDir |-> bd,
        res |-> Ret(JoinTexts(imps.codes \o BlankAfter(NativeImports(doc))
                                \o reqs.codes \o BlankAfter(NativeRequires(doc))
                                \o gs.codes \o fs.codes,
                              <<NL>>))]

\* transpileModule after the globals are lowered
ModuleFunctions(doc, moduleBaseDir, st, bd, imps, reqs, gs) ==
  IF gs.err # ""
  THEN [st |-> gs.st, baseDir |-> moduleBaseDir, res |-> Throw(gs.err, gs.msg)]
  ELSE ModuleJoined(doc, moduleBaseDir, bd, imps, reqs, gs,
                    MapFunctions(doc.functions, gs.st, st.params))

\* transpileModule after the native imports and requires are lowered
ModuleGlobals(doc, moduleBaseDir, st, bd, imps, reqs) ==
  IF imps.err # ""
  THEN [st |-> st, baseDir |-> moduleBaseDir, res |-> Throw(imps.err, imps.msg)]
  ELSE IF reqs.err # ""
  THEN [st |-> st, baseDir |-> moduleBaseDir, res |-> Throw(reqs.err, reqs.msg)]
  ELSE ModuleFunctions(doc, moduleBaseDir, st, bd, imps, reqs,
                       MapGlobals(doc.globals, st))

\* transpileModule(ast, moduleBaseDir): the registry and baseDir after the
\* call, and the text returned or the exception thrown
transpileModule(doc, moduleBaseDir, st, bd) ==
  ModuleGlobals(doc, moduleBaseDir, st, bd,
                MapImports(NativeImports(doc)),
                MapRequires(NativeRequires(doc), moduleBaseDir))

-----------------------------------------------------------------------------
(* The entry routine.                                                      *)

\* text.replace(';', ''): the first semicolon is removed
ReplaceFirstSemicolon(text) ==
  IF \E i \in 1..Len(text) : text[i] = ";"
  THEN LET d == CHOOSE i \in 1..Len(text) :
                  text[i] = ";" /\ \A j \in 1..(i - 1) : text[j] # ";"
       IN SubSeq(text, 1, d - 1) \o SubSeq(text, d + 1, Len(text))
  ELSE text

NoStatements(st) == [st |-> st, err |-> "", msg |-> <<>>, ordered |-> <<>>]

RECURSIVE EntryBindings(_, _), EntryLoop(_, _)
\* a variant of EntryBinding without `this.params[name] = true`: the name is
\* declared but stays unknown to the statements that follow
EntryBindingUnregistered(bs, st, v) ==
  IF v.err # "" THEN [st |-> st, err |-> v.err, msg |-> v.msg, ordered |-> <<>>]
  ELSE [EntryBindings(Tail(bs), st)
          EXCEPT !.ordered =
            <<[type |-> "let", name |-> bs[1].s,
               value |-> <<"let ">> \o bs[1].s \o <<" = ">> \o v.code \o <<";">>]>> \o @]

\* one binding after its value is lowered: v is the lowered value
EntryBinding(bs, st, v) ==
  IF v.err # "" THEN [st |-> st, err |-> v.err, msg |-> v.msg, ordered |-> <<>>]
  ELSE [EntryBindings(Tail(bs), [st EXCEPT !.params = @ \cup {bs[1].s}])
          EXCEPT !.ordered =
            <<[type |-> "let", name |-> bs[1].s,
               value |-> <<"let ">> \o bs[1].s \o <<" = ">> \o v.code \o <<";">>]>> \o @]

\* letExpr.forEach(b => ...): each binding is lowered, then registered
EntryBindings(bs, st) ==
  IF Len(bs) = 0 THEN NoStatements(st)
  ELSE EntryBinding(bs, st, transpileExpr(bs[1].k[1], 0, st))

\* orderedStatements.push({ type: 'expr', value: `${code};` })
ExprStatement(st, c) ==
  [st |-> st, err |-> c.err, msg |-> c.msg,
   ordered |-> IF c.err # "" THEN <<>>
               ELSE <<[type |-> "expr", name |-> <<>>, value |-> c.code \o <<";">>]>>]

\* one turn of the loop over the entry's statements
EntryStatement(expr, st) ==
  IF expr.t = "null"
  \* typeof null === 'object', and null.let throws
  THEN [st |-> st, err |-> "TypeError",
        msg |-> <<"Cannot read properties of null (reading 'let')">>,
        ordered |-> <<>>]
  ELSE IF expr.t = "let"
  THEN IF expr.n = 1 THEN EntryBindings(<<expr>>, st)
       ELSE IF expr.n = 2 THEN EntryBindings(expr.k, st)
       ELSE NoStatements(st)
  ELSE ExprStatement(st, transpileExpr(expr, 0, st))

\* the rest of the loop after one turn gave this
EntryLoopFrom(stmts, this) ==
  IF this.err # "" THEN this
  ELSE [EntryLoop(Tail(stmts), this.st) EXCEPT !.ordered = this.ordered \o @]

\* for (const expr of entry) { ... }: orderedStatements and the registry
EntryLoop(stmts, st) ==
  IF Len(stmts) = 0 THEN NoStatements(st)
  ELSE EntryLoopFrom(stmts, EntryStatement(stmts[1], st))

\* this.indent(`return ${this.transpileExpr(entry)};`)
EntryReturn(st, r) ==
  [st |-> st,
   res |-> IF r.err # "" THEN r ELSE Ret(indent(<<"return ">> \o r.code \o <<";">>))]

EntryReturnNull(st) == [st |-> st, res |-> Ret(indent(<<"return ", "null", ";">>))]

\* the statements with the last one turned into the return
EntryStatements(ordered) ==
  LET n == Len(ordered)
      statements == [i \in 1..n |-> ordered[i].value]
  IN IF ordered[n].type = "let"
     THEN [statements EXCEPT ![n] = ReplaceFirstSemicolon(@)]
            \o <<<<"return ">> \o ordered[n].name \o <<";">>>>
     ELSE [statements EXCEPT ![n] = <<"return ">> \o ReplaceFirstSemicolon(@) \o <<";">>]

\* transpileEntryBody after the loop over the statements
EntryJoined(loop) ==
  IF loop.err # "" THEN [st |-> loop.st, res |-> Throw(loop.err, loop.msg)]
  ELSE IF Len(loop.ordered) = 0 THEN EntryReturnNull(loop.st)
  ELSE [st |-> loop.st,
        res |-> Ret(indent(JoinTexts(EntryStatements(loop.ordered), <<NL>>)))]

transpileEntryBody(entry, st) ==
  IF entry.t # "arr" THEN EntryReturn(st, transpileExpr(entry, 0, st))
  ELSE IF Len(entry.k) = 0 THEN EntryReturnNull(st)
  ELSE IF Len(entry.k) = 1 THEN EntryReturn(st, transpileExpr(entry.k[1], 0, st))
  ELSE EntryJoined(EntryLoop(entry.k, st))

\* entryCode.split('\n').map(line => line.replace(/^  /, '')).join('\n')
unindent(text) ==
  LET ls == SplitLines(text)
  IN JoinTexts([i \in 1..Len(ls) |->
                  IF Len(ls[i]) > 0 /\ ls[i][1] = IND THEN Tail(ls[i]) ELSE ls[i]],
               <<NL>>)

-----------------------------------------------------------------------------
(* transpile(ast) on one instance, step by step.                           *)

MaxImports == 2
MaxReruns == 2

DeclList == IF pc = "imports" THEN ast.imports ELSE ast.require
DeclPath == IF pc = "imports" THEN ast.imports[idx].from ELSE ast.require[idx].module

Fail(kind, msg, at) ==
  /\ pc' = "failed"
  /\ error' = [err |-> kind, msg |-> msg, at |-> at]

\* the locals of a call of transpile
StartRun(a) ==
  /\ runs' = runs + 1
  /\ ast' = a
  /\ pc' = "imports"
  /\ idx' = 1
  /\ pending' = NoPending
  /\ yaplModules' = <<>>
  /\ parts' = <<>>
  /\ globalDecls' = <<>>
  /\ functionDecls' = <<>>
  /\ output' = <<>>
  /\ error' = NoError
  /\ oldParams' = {}
  /\ fsReads' = <<>>
  /\ lowered' = <<>>
  /\ UNCHANGED <<instanceVars, node, frag, value, fresh>>

\* the first call of transpile (through run) on the instance, with document a
Transpile(a) ==
  /\ pc = "idle"
  /\ StartRun(a)

\* a call of transpile on an instance that may have run before
TranspileAgain(a) ==
  /\ pc \in {"idle", "done", "failed"}
  /\ runs < MaxReruns
  /\ StartRun(a)

\* new YAPLTranspiler(): the instance in use is dropped for a new one; the
\* source its first call returned is remembered
Construct ==
  /\ pc \in {"done", "failed"}
  /\ fresh' = IF pc = "done" /\ runs = 1 /\ ast \notin DOMAIN fresh
              THEN (ast :> output) @@ fresh ELSE fresh
  /\ functions' = {}
  /\ globals' = {}
  /\ params' = {}
  /\ baseDir' = <<".">>
  /\ importedModules' = <<>>
  /\ runs' = 0
  /\ pc' = "idle"
  /\ UNCHANGED <<ast, idx, pending, yaplModules, parts, globalDecls, functionDecls,
                 output, error, oldParams, fsReads, lowered, node, frag, value>>

\* first pass, a declaration that is no .yapl path: nothing is loaded
SkipDeclaration ==
  /\ pc \in {"imports", "require"}
  /\ idx <= Len(DeclList)
  /\ ~ endsWithYapl(DeclPath)
  /\ idx' = idx + 1
  /\ UNCHANGED <<instanceVars, ast, pc, pending, yaplModules, parts, globalDecls,
                 functionDecls, output, error, oldParams, fsReads, lowered, runs,
                 node, frag, value, fresh>>

\* first pass, the end of the imports loop and of the require loop
EndOfDeclarations ==
  /\ pc \in {"imports", "require"}
  /\ idx > Len(DeclList)
  /\ pc' = IF pc = "imports" THEN "require" ELSE "assemble"
  /\ idx' = 1
  /\ UNCHANGED <<instanceVars, ast, pending, yaplModules, parts, globalDecls,
                 functionDecls, output, error, oldParams, fsReads, lowered, runs,
                 node, frag, value, fresh>>

\* loadYAPLModule(filePath), the cache holds filePath
LoadCachedModule ==
  /\ pc \in {"imports", "require"}
  /\ idx <= Len(DeclList)
  /\ endsWithYapl(DeclPath)
  /\ DeclPath \in DOMAIN importedModules
  /\ yaplModules' = Append(yaplModules, importedModules[DeclPath])
  /\ idx' = idx + 1
  /\ UNCHANGED <<instanceVars, ast, pc, pending, parts, globalDecls, functionDecls,
                 output, error, oldParams, fsReads, lowered, runs, node, frag, value, fresh>>

\* loadYAPLModule(filePath), cache miss: resolve, read and decode the file
ReadModule ==
  /\ pc \in {"imports", "require"}
  /\ idx <= Len(DeclList)
  /\ endsWithYapl(DeclPath)
  /\ DeclPath \notin DOMAIN importedModules
  /\ LET resolvedPath == ResolvedPath(baseDir, DeclPath)
     IN /\ fsReads' = Append(fsReads, [path |-> resolvedPath, by |-> "loadYAPLModule"])
        /\ IF resolvedPath \notin DOMAIN Files
           THEN /\ Fail("Error",
                        <<"Cannot read YAPL file: ">> \o PathText(DeclPath)
                          \o <<" (resolved to: ">> \o PathText(resolvedPath)
                          \o <<") - ", "ENOENT">>,
                        "loadYAPLModule")
                /\ UNCHANGED pending
           ELSE IF ~ Files[resolvedPath].decodes
           THEN /\ Fail("Error",
                        <<"Cannot parse YAPL file: ">> \o PathText(DeclPath)
                          \o <<" - ", "YAMLException">>,
                        "loadYAPLModule")
                /\ UNCHANGED pending
           ELSE /\ pending' = [filePath |-> DeclPath, resolvedPath |-> resolvedPath,
                               from |-> pc]
                /\ pc' = "loading"
                /\ UNCHANGED error
  /\ UNCHANGED <<instanceVars, ast, idx, yaplModules, parts, globalDecls, functionDecls,
                 output, oldParams, lowered, runs, node, frag, value, fresh>>

\* a variant of ModuleLoaded that returns the module text without storing it
ModuleLoadedUncached(r) ==
  /\ functions' = r.st.functions
  /\ globals' = r.st.globals
  /\ params' = r.st.params
  /\ baseDir' = r.baseDir
  /\ IF r.res.err # ""
     THEN /\ Fail(r.res.err, r.res.msg, "transpileModule")
          /\ UNCHANGED <<importedModules, yaplModules, idx>>
     ELSE /\ UNCHANGED importedModules
          /\ yaplModules' = Append(yaplModules, r.res.code)
          /\ pc' = pending.from
          /\ idx' = idx + 1
          /\ UNCHANGED error

\* a variant of ModuleLoaded that drops the names transpileModule registered
ModuleLoadedUnregistered(r) ==
  /\ UNCHANGED <<functions, globals>>
  /\ params' = r.st.params
  /\ baseDir' = r.baseDir
  /\ IF r.res.err # ""
     THEN /\ Fail(r.res.err, r.res.msg, "transpileModule")
          /\ UNCHANGED <<importedModules, yaplModules, idx>>
     ELSE /\ importedModules' =
               [k \in DOMAIN importedModules \cup {pending.filePath} |->
                  IF k = pending.filePath THEN r.res.code ELSE importedModules[k]]
          /\ yaplModules' = Append(yaplModules, r.res.code)
          /\ pc' = pending.from
          /\ idx' = idx + 1
          /\ UNCHANGED error

\* loadYAPLModule after transpileModule gave r: the cache is set under the
\* requested filePath and the module text is pushed
ModuleLoaded(r) ==
  /\ functions' = r.st.functions
  /\ globals' = r.st.globals
  /\ params' = r.st.params
  /\ baseDir' = r.baseDir
  /\ IF r.res.err # ""
     THEN /\ Fail(r.res.err, r.res.msg, "transpileModule")
          /\ UNCHANGED <<importedModules, yaplModules, idx>>
     ELSE /\ importedModules' =
               [k \in DOMAIN importedModules \cup {pending.filePath} |->
                  IF k = pending.filePath THEN r.res.code ELSE importedModules[k]]
          /\ yaplModules' = Append(yaplModules, r.res.code)
          /\ pc' = pending.from
          /\ idx' = idx + 1
          /\ UNCHANGED error

\* loadYAPLModule, after the read: transpileModule, then the cache is set
LowerModule ==
  /\ pc = "loading"
  /\ lowered' = Append(lowered, [filePath |-> pending.filePath,
                                 resolvedPath |-> pending.resolvedPath])
  /\ pending' = NoPending
  /\ ModuleLoaded(transpileModule(Files[pending.resolvedPath].doc,
                                  dirname(pending.resolvedPath), Registry, baseDir))
  /\ UNCHANGED <<ast, parts, globalDecls, functionDecls, output, oldParams, fsReads,
                 runs, node, frag, value, fresh>>

\* the inlined modules, then the import and the require statements
AssembleDeclarations ==
  /\ pc = "assemble"
  /\ LET head == IF Len(yaplModules) > 0
                 THEN <<<<"// Inlined YAPL modules">>>> \o yaplModules \o <<<<>>>>
                 ELSE <<>>
         imps == MapImports(ast.imports)
         reqs == MapRequires(ast.require, baseDir)
         blank(defs) == IF Len(defs) > 0 THEN <<<<>>>> ELSE <<>>
         byRequire(ps) == [i \in 1..Len(ps) |-> [path |-> ps[i], by |-> "transpileRequire"]]
     IN IF imps.err # ""
        THEN /\ Fail(imps.err, imps.msg, "transpileImport")
             /\ parts' = head \o imps.codes
             /\ UNCHANGED <<fsReads, idx>>
        ELSE IF reqs.err # ""
        THEN /\ Fail(reqs.err, reqs.msg, "transpileRequire")
             /\ parts' = head \o imps.codes \o blank(ast.imports) \o reqs.codes
             /\ fsReads' = fsReads \o byRequire(reqs.reads)
             /\ UNCHANGED idx
        ELSE /\ parts' = head \o imps.codes \o blank(ast.imports)
                           \o reqs.codes \o blank(ast.require)
             /\ fsReads' = fsReads \o byRequire(reqs.reads)
             /\ pc' = "globals"
             /\ idx' = 1
             /\ UNCHANGED error
  /\ UNCHANGED <<instanceVars, ast, pending, yaplModules, globalDecls, functionDecls,
                 output, oldParams, lowered, runs, node, frag, value, fresh>>

\* transpile after ast.globals.map gave r
GlobalsLowered(r) ==
  /\ globals' = r.st.globals
  /\ IF r.err # ""
     THEN /\ Fail(r.err, r.msg, "transpileGlobal")
          /\ UNCHANGED <<globalDecls, idx>>
     ELSE /\ globalDecls' = r.codes
          /\ pc' = "functions"
          /\ idx' = 1
          /\ UNCHANGED error

\* ast.globals.map(g => this.transpileGlobal(g))
TranspileGlobals ==
  /\ pc = "globals"
  /\ GlobalsLowered(MapGlobals(ast.globals, Registry))
  /\ UNCHANGED <<functions, params, baseDir, importedModules, ast, pending, yaplModules,
                 parts, functionDecls, output, oldParams, fsReads, lowered, runs,
                 node, frag, value, fresh>>

\* transpile after one callback of ast.functions.map gave r
FunctionLowered(r) ==
  /\ functions' = r.st.functions
  /\ params' = r.st.params
  /\ oldParams' = r.oldParams
  /\ IF r.res.err # ""
     THEN /\ Fail(r.res.err, r.res.msg, "transpileFunction")
          /\ UNCHANGED <<functionDecls, idx>>
     ELSE /\ functionDecls' = Append(functionDecls, r.res.code)
          /\ idx' = idx + 1
          /\ UNCHANGED <<pc, error>>

\* one callback of ast.functions.map(f => this.transpileFunction(f))
TranspileFunctionStep ==
  /\ pc = "functions"
  /\ idx <= Len(ast.functions)
  /\ FunctionLowered(transpileFunction(ast.functions[idx], Registry))
  /\ UNCHANGED <<globals, baseDir, importedModules, ast, pending, yaplModules, parts,
                 globalDecls, output, fsReads, lowered, runs, node, frag, value, fresh>>

\* `function main() {\n${unindentedCode}\n}`, or the default main
MainFunction(entryCode) ==
  IF entryCode # <<>>
  THEN <<"function main() {", NL>> \o unindent(entryCode) \o <<NL, "}">>
  ELSE <<"function main() {", NL, IND, "return ", "null", ";", NL, "}">>

\* a variant of EntryLowered that pushes the functions before the globals
EntryLoweredFunctionsFirst(r) ==
  /\ params' = r.st.params
  /\ IF r.res.err # ""
     THEN /\ Fail(r.res.err, r.res.msg, "transpileEntryBody")
          /\ UNCHANGED <<parts, output>>
     ELSE /\ parts' = parts \o functionDecls \o globalDecls
                       \o <<MainFunction(r.res.code), <<"main()">>>>
          /\ output' = JoinTexts(parts', <<NL>>)
          /\ pc' = "done"
          /\ UNCHANGED error

\* transpile after the entry routine gave r
EntryLowered(r) ==
  /\ params' = r.st.params
  /\ IF r.res.err # ""
     THEN /\ Fail(r.res.err, r.res.msg, "transpileEntryBody")
          /\ UNCHANGED <<parts, output>>
     ELSE /\ parts' = parts \o globalDecls \o functionDecls
                       \o <<MainFunction(r.res.code), <<"main()">>>>
          /\ output' = JoinTexts(parts', <<NL>>)
          /\ pc' = "done"
          /\ UNCHANGED error

\* the entry routine, and the compilation unit joined
TranspileEntryAndJoin ==
  /\ pc = "functions"
  /\ idx > Len(ast.functions)
  /\ EntryLowered(IF Falsy(ast.main) THEN [st |-> Registry, res |-> Ret(<<>>)]
                  ELSE transpileEntryBody(ast.main, Registry))
  /\ UNCHANGED <<functions, globals, baseDir, importedModules, ast, idx, pending,
                 yaplModules, globalDecls, functionDecls, oldParams, fsReads, lowered,
                 runs, node, frag, value, fresh>>

\* run(): execute on the source transpile returned
Execute ==
  /\ pc = "done"
  /\ value' = execute(output)
  /\ pc' = "executed"
  /\ UNCHANGED <<instanceVars, ast, idx, pending, yaplModules, parts, globalDecls,
                 functionDecls, output, error, oldParams, fsReads, lowered, runs,
                 fresh, node, frag>>

\* --- the documents handed to transpile --------------------------------------
FunctionDefs ==
  {FunctionDef("f", <<"n">>, Arr(<<Op("+", <<Str(<<"n">>), Num(1)>>)>>)),
   FunctionDef("g", <<"x">>, Arr(<<LetBad(<<Q, "x", Q>>)>>)),
   FunctionDef("h", <<"n", "m">>,
               IfForm(Op("<", <<Str(<<"n">>), Str(<<"m">>)>>), Str(<<"n">>), Str(<<"m">>))),
   FunctionDef("p", <<"n">>, LetOne(<<"y">>, Str(<<"n">>))),
   FunctionDef("q", <<"n">>, LetMany(<<LetOne(<<"y">>, Str(<<"n">>)), LetOne(<<"z">>, Num(2))>>)),
   FunctionDef("z", <<>>, Arr(<<Null, Op("+", <<Null, Num(1)>>)>>))}

Mains ==
  {Absent,
   Arr(<<Arr(<<Str(<<"fa">>), Num(1)>>)>>),
   Arr(<<LetOne(<<"y">>, Num(1)), Op("+", <<Str(<<"y">>), Num(1)>>)>>),
   Arr(<<Op("+", <<Num(1), Num(1)>>), Op("+", <<Num(2), Num(2)>>),
         Op("+", <<Num(3), Num(3)>>)>>),
   Arr(<<Num(1), Str(<<"a", ";", "b">>)>>),
   Arr(<<Num(1), LetOne(<<"x">>, Num(1))>>),
   Arr(<<Num(1), LetOne(<<"x">>, Str(<<"a", ";", "b">>))>>),
   Arr(<<Num(1), LetMany(<<LetOne(<<"y">>, Num(1)), LetOne(<<"x">>, Num(2))>>)>>),
   Arr(<<LetOne(<<"x">>, Num(1))>>),
   Arr(<<LetMany(<<LetOne(<<"y">>, Num(1)), LetOne(<<"x">>, Num(2))>>)>>),
   Arr(<<Str(<<"x">>), LetOne(<<"x">>, Num(1)), Str(<<"x">>)>>),
   Arr(<<Num(1), LetBad(<<Q, "x", Q>>), Num(2)>>),
   Arr(<<LetBad(<<Q, "x", Q>>)>>),
   Arr(<<Null, Num(1)>>),
   Arr(<<Null>>),
   Arr(<<Num(1), Op("+", <<Null, Num(1)>>)>>),
   Num(0), Num(5), Bool(FALSE), Bool(TRUE), Str(<<>>), Str(<<"hello">>), Null, Arr(<<>>)}

\* the recursive definitions of the tests, called with each argument up to the
\* one the test uses
MaxFactorial == 5
MaxFib == 10

factorial ==
  FunctionDef("factorial", <<"n">>,
    Arr(<<IfForm(Op("<=", <<Str(<<"n">>), Num(1)>>), Num(1),
                 Op("*", <<Str(<<"n">>),
                           Arr(<<Str(<<"factorial">>),
                                 Op("-", <<Str(<<"n">>), Num(1)>>)>>)>>))>>))
fib ==
  FunctionDef("fib", <<"n">>,
    Arr(<<IfForm(Op("<", <<Str(<<"n">>), Num(2)>>), Str(<<"n">>),
                 Op("+", <<Arr(<<Str(<<"fib">>), Op("-", <<Str(<<"n">>), Num(1)>>)>>),
                           Arr(<<Str(<<"fib">>), Op("-", <<Str(<<"n">>), Num(2)>>)>>)>>))>>))

\* a function that returns itself
self == FunctionDef("self", <<"n">>, Arr(<<Str(<<"self">>)>>))

RecursivePrograms ==
  {Program(<<>>, <<>>, <<>>, <<factorial>>, Arr(<<Arr(<<Str(<<"factorial">>), Num(k)>>)>>)) :
     k \in 0..MaxFactorial}
  \cup
  {Program(<<>>, <<>>, <<>>, <<fib>>, Arr(<<Arr(<<Str(<<"fib">>), Num(k)>>)>>)) :
     k \in 0..MaxFib}
  \cup
  {Program(<<>>, <<>>, <<>>, <<self>>, Arr(<<Arr(<<Str(<<"self">>), Num(1)>>)>>))}

\* functions of one parameter n whose body applies a sign to a signed n, and
\* one that reads n afterwards
SignOps == {"-", "+"}
Signed(o1, o2) == Op(o1, <<Op(o2, <<Str(<<"n">>)>>)>>)
UnaryPrograms ==
  {Program(<<>>, <<>>, <<>>, <<FunctionDef("sg", <<"n">>, body)>>,
           Arr(<<Arr(<<Str(<<"sg">>), Num(k)>>)>>)) :
     body \in {Arr(<<Signed(o1, o2)>>) : o1 \in SignOps, o2 \in SignOps}
              \cup {Arr(<<Signed(o1, o1), Str(<<"n">>)>>) : o1 \in SignOps},
     k \in {0, 3}}

\* programs that declare modules, programs that declare globals and functions,
\* and programs that declare all of them
Programs ==
  LET ImportDefs ==
        {ImportDef(<<"a.yapl">>, <<>>, <<Name("fa")>>, <<>>),
         ImportDef(<<".", "a.yapl">>, <<>>, <<Name("ga")>>, <<>>),
         ImportDef(<<"lib", "b.yapl">>, <<>>, <<Name("fb")>>, <<>>),
         ImportDef(<<"gone.yapl">>, <<>>, <<Name("g")>>, <<>>),
         ImportDef(<<"bad.yapl">>, <<>>, <<Name("g")>>, <<>>),
         ImportDef(<<"fs">>, Name("fs"), <<>>, <<>>),
         ImportDef(<<"fs">>, Name("fs"), <<>>, Name("ns"))}
      RequireDefs ==
        {RequireDef(<<"a.yapl">>, <<>>, <<Name("fa")>>, <<>>),
         RequireDef(<<"", "p", "a.yapl">>, Name("m"), <<>>, <<>>),
         RequireDef(<<"fs">>, Name("fs"), <<>>, <<>>),
         RequireDef(<<"fs">>, Name("fs"), <<>>, Name("ns")),
         RequireDef(<<"fs">>, <<>>, <<Name("readFileSync")>>, Name("ns"))}
      gx == GlobalDef("gx", Num(2))
      gy == GlobalDef("gy", Op("+", <<Str(<<"gx">>), Num(1)>>))
      f  == FunctionDef("f", <<"n">>, Arr(<<Op("+", <<Str(<<"n">>), Num(1)>>)>>))
      r  == FunctionDef("r", <<"n">>, Arr(<<Op("+", <<Str(<<"n">>), Str(<<"gx">>)>>)>>))
  IN {Program(is, rs, <<>>, <<>>, Arr(<<Arr(<<Str(<<"fa">>), Num(1)>>)>>)) :
        is \in SeqsUpTo(ImportDefs, MaxImports), rs \in SeqsUpTo(RequireDefs, 1)}
     \cup
     {Program(<<>>, <<>>, gs, fs, m) :
        gs \in {<<>>, <<GlobalDef("gx", Num(2))>>},
        fs \in SeqsUpTo(FunctionDefs, 2),
        m \in Mains}
     \cup
     {Program(<<ImportDef(<<"a.yapl">>, <<>>, <<Name("fa")>>, <<>>),
                ImportDef(<<"fs">>, Name("fs"), <<>>, <<>>),
                ImportDef(<<"lib", "b.yapl">>, <<>>, <<Name("fb")>>, <<>>)>>,
              <<RequireDef(<<"c.yapl">>, Name("m"), <<>>, <<>>),
                RequireDef(<<"os">>, Name("os"), <<>>, <<>>)>>,
              gs, fs, Arr(<<Op("+", <<Str(<<"gx">>), Str(<<"gy">>)>>),
                            Op("*", <<Str(<<"gx">>), Num(2)>>)>>)) :
        gs \in {<<gx, gy>>, <<gy, gx>>},
        fs \in {<<f, r>>, <<r, f>>}}
     \cup
     {Program(<<>>, <<>>, gs, fs, Arr(<<Str(<<"gz">>), Str(<<"e1">>), Str(<<"e2">>)>>)) :
        gs \in {<<GlobalDef("gz", Str(<<"gz">>)), GlobalDef("ge", Str(<<"e1">>))>>,
                <<GlobalDef("ge", Str(<<"e2">>)), GlobalDef("gz", Str(<<"gz">>))>>},
        fs \in {<<FunctionDef("e1", <<>>, Arr(<<Str(<<"e2">>), Str(<<"e1">>)>>)),
                  FunctionDef("e2", <<>>, Arr(<<Str(<<"e1">>), Str(<<"e2">>)>>))>>,
                <<FunctionDef("e2", <<>>, Arr(<<Str(<<"e1">>), Str(<<"e2">>)>>)),
                  FunctionDef("e1", <<>>, Arr(<<Str(<<"e2">>), Str(<<"e1">>)>>))>>}}
     \cup
     {Program(is, rs, <<>>, <<>>,
              Arr(<<Op("+", <<Str(<<"ga">>), Num(1)>>), Str(<<"fb">>), Str(<<"fa">>)>>)) :
        is \in {<<ImportDef(<<"a.yapl">>, <<>>, <<Name("fa")>>, <<>>),
                  ImportDef(<<"lib", "b.yapl">>, <<>>, <<Name("fb")>>, <<>>)>>,
                <<ImportDef(<<"lib", "b.yapl">>, <<>>, <<Name("fb")>>, <<>>),
                  ImportDef(<<"a.yapl">>, <<>>, <<Name("fa")>>, <<>>),
                  ImportDef(<<"a.yapl">>, <<>>, <<Name("ga")>>, <<>>)>>},
        rs \in {<<>>, <<RequireDef(<<"a.yapl">>, <<>>, <<Name("fa")>>, <<>>)>>}}
     \cup RecursivePrograms \cup UnaryPrograms

Init ==
  /\ InstanceInit
  /\ ProcessIdle
  /\ pc = "idle"
  /\ node = Null
  /\ frag = Ret(<<>>)
  /\ value = NoV

Next ==
  \/ \E a \in Programs : Transpile(a)
  \/ SkipDeclaration
  \/ EndOfDeclarations
  \/ LoadCachedModule
  \/ ReadModule
  \/ LowerModule
  \/ AssembleDeclarations
  \/ TranspileGlobals
  \/ TranspileFunctionStep
  \/ TranspileEntryAndJoin
  \/ Execute

Spec == Init /\ [][Next]_vars

\* --- several calls on one instance, and new instances ----------------------
RunPrograms ==
  {Program(<<ImportDef(<<"a.yapl">>, <<>>, <<Name("fa")>>, <<>>)>>, <<>>, <<>>, <<>>,
           Arr(<<Arr(<<Str(<<"fa">>), Num(1)>>)>>)),
   Program(<<ImportDef(<<"fs">>, Name("fs"), <<>>, <<>>)>>, <<>>,
           <<GlobalDef("gx", Num(2))>>,
           <<FunctionDef("f", <<"n">>, Arr(<<Op("+", <<Str(<<"n">>), Num(1)>>)>>))>>,
           Arr(<<LetOne(<<"y">>, Num(1)), Op("+", <<Str(<<"y">>), Num(1)>>)>>)),
   Program(<<>>, <<>>, <<>>, <<>>, Arr(<<Str(<<"gx">>)>>)),
   Program(<<>>, <<>>, <<>>, <<>>, Arr(<<Op("+", <<Str(<<"y">>), Str(<<"ga">>)>>)>>))}

NextRuns ==
  \/ \E a \in RunPrograms : TranspileAgain(a)
  \/ Construct
  \/ SkipDeclaration
  \/ EndOfDeclarations
  \/ LoadCachedModule
  \/ ReadModule
  \/ LowerModule
  \/ AssembleDeclarations
  \/ TranspileGlobals
  \/ TranspileFunctionStep
  \/ TranspileEntryAndJoin

SpecRuns == Init /\ [][NextRuns]_vars


-----------------------------------------------------------------------------
(* Properties of one compilation (Spec).                                   *)

\* the number of places where sub occurs in text
Occurrences(sub, text) ==
  Cardinality({i \in 1..(Len(text) - Len(sub) + 1) :
                 SubSeq(text, i, i + Len(sub) - 1) = sub})

\* the .yapl paths a document declares, imports first
YaplPathsOf(doc) ==
  LET yaplI(d) == endsWithYapl(d.from)
      yaplR(d) == endsWithYapl(d.module)
      is == SelectSeq(doc.imports, yaplI)
      rs == SelectSeq(doc.require, yaplR)
  IN [i \in 1..Len(is) |-> is[i].from] \o [i \in 1..Len(rs) |-> rs[i].module]

DeclaredTwice(p) ==
  \E i, j \in DOMAIN YaplPathsOf(ast) :
     i < j /\ YaplPathsOf(ast)[i] = p /\ YaplPathsOf(ast)[j] = p

\* C1: when transpile finishes a program in which the same .yapl path is
\* declared by two import/require declarations, the produced source contains
\* the lowered declarations of that module exactly once.
C1_DuplicatePathInlinedOnce ==
  pc = "done" =>
    \A p \in DOMAIN importedModules :
       DeclaredTwice(p) => Occurrences(importedModules[p], output) = 1

\* the declared path strings that resolve to the file at absolute path r
StringsFor(r) ==
  {p \in Range(YaplPathsOf(ast)) : ResolvedPath(baseDir, p) = r}

TimesLowered(r) == Cardinality({i \in DOMAIN lowered : lowered[i].resolvedPath = r})

TimesRead(r) == Cardinality({i \in DOMAIN fsReads : fsReads[i].path = r})

\* C2: when transpile finishes, a file that two different declared path
\* strings resolve to has been read once and lowered once, and no cache entry
\* was filled from two different files.
C2_CacheKeyedByResolvedPath ==
  pc = "done" =>
    /\ \A r \in DOMAIN Files :
          Cardinality(StringsFor(r)) >= 2 => TimesLowered(r) = 1 /\ TimesRead(r) = 1
    /\ \A i, j \in DOMAIN lowered :
          lowered[i].filePath = lowered[j].filePath
            => lowered[i].resolvedPath = lowered[j].resolvedPath

\* the absolute paths of the .yapl files the module at absolute path r declares
NestedModules(r) ==
  {ResolvedPath(dirname(r), p) : p \in Range(YaplPathsOf(Files[r].doc))}

\* the text of every global and function of the module at r occurs in text
DeclarationsInlined(r, text) ==
  /\ \A i \in DOMAIN Files[r].doc.globals :
        Occurrences(<<"let ">> \o Files[r].doc.globals[i].name \o <<" = ">>, text) >= 1
  /\ \A i \in DOMAIN Files[r].doc.functions :
        Occurrences(<<"function ">> \o Files[r].doc.functions[i].name \o <<"(">>, text) >= 1

\* C3: when transpile finishes, every .yapl file declared inside a loaded
\* module, its path resolved against that module's directory, has been
\* lowered too and its globals and functions are in the produced source.
C3_NestedModulesLoaded ==
  pc = "done" =>
    \A i \in DOMAIN lowered :
       \A n \in NestedModules(lowered[i].resolvedPath) :
          /\ n \in DOMAIN Files
          /\ TimesLowered(n) >= 1
          /\ DeclarationsInlined(n, output)

\* C10: after transpileFunction, whether it returned or its body raised a
\* lowering error, the active parameter set is the one that was active when
\* it was called.
C10_ParamsRestored ==
  ((pc = "functions" /\ idx > 1) \/ (pc = "failed" /\ error.at = "transpileFunction"))
    => params = oldParams

\* the text of the entry routine in the produced source
MainText == parts[Len(parts) - 1]

\* the entry routine whose body is the given lines
MainWith(lines) == <<"function main() {", NL>> \o JoinTexts(lines, <<NL>>) \o <<NL, "}">>

IsExpressionStatement(e) == e.t \notin {"let", "null"}

\* C13: when transpile finishes a program whose entry sequence has two or more
\* expression statements, the entry routine holds the lowering of every
\* statement unaltered and in order, each ended by ';', the last one returned.
C13_EntryStatementsUnaltered ==
  (/\ pc = "done"
   /\ ast.main.t = "arr"
   /\ Len(ast.main.k) >= 2
   /\ \A i \in DOMAIN ast.main.k : IsExpressionStatement(ast.main.k[i]))
  => MainText =
       MainWith([i \in DOMAIN ast.main.k |->
                   (IF i = Len(ast.main.k) THEN <<"return ">> ELSE <<>>)
                     \o transpileExpr(ast.main.k[i], 0, Registry).code \o <<";">>])

\* the last binding of a let form: the binding itself, or the last of its list
LastBinding(e) == IF e.n = 1 THEN e ELSE e.k[Len(e.k)]

\* the text declares the binding with its value's lowering unaltered and returns
\* the bound name on the next line
DeclaresAndReturns(text, b, st) ==
  LET ls == SplitLines(text)
      declaration == <<"let ">> \o b.s \o <<" = ">> \o transpileExpr(b.k[1], 0, st).code
  IN \E i \in 1..(Len(ls) - 1) :
       /\ Trim(ls[i]) \in {declaration, declaration \o <<";">>}
       /\ Trim(ls[i + 1]) = <<"return ">> \o b.s \o <<";">>

EndsWithLet(a) ==
  /\ a.main # Absent
  /\ a.main.t = "arr"
  /\ Len(a.main.k) >= 1
  /\ Last(a.main.k).t = "let"
  /\ Last(a.main.k).n \in {1, 2}

\* C14: when transpile finishes a program whose entry sequence (of any length,
\* one included) ends with a let, single or list, the entry routine declares
\* that let's last name with its value and returns that name.
C14_LastLetReturned ==
  (pc = "done" /\ EndsWithLet(ast))
  => DeclaresAndReturns(MainText, LastBinding(Last(ast.main.k)), Registry)

\* the lines of a text without their indentation
TrimmedLines(text) == [i \in 1..Len(SplitLines(text)) |-> Trim(SplitLines(text)[i])]

\* the bindings of a let form, in order
BindingsOf(e) == IF e.n = 1 THEN <<e>> ELSE e.k

\* a function whose body is the given let: an immediately invoked block that
\* declares each binding in order and returns the last declared name
FunctionReturningLet(func, st) ==
  <<<<"function ">> \o func.name \o <<"(">> \o JoinTexts(func.params, <<", ">>)
      \o <<") {">>,
    <<"return ", "(() => {">>>>
  \o [i \in 1..Len(BindingsOf(func.body)) |->
        <<"let ">> \o BindingsOf(func.body)[i].s \o <<" = ">>
          \o transpileExpr(BindingsOf(func.body)[i].k[1], 0, st).code \o <<";">>]
  \o <<<<"return ">> \o LastBinding(func.body).s \o <<";">>,
       <<"})()", ";">>,
       <<"}">>>>

\* C15: a let that is the body of a function, in single or in list form, lowers
\* to an immediately invoked block that declares each binding in order and
\* evaluates to the value of the last declared name.
C15_LetBlockYieldsLastName ==
  pc = "done"
  => \A i \in DOMAIN ast.functions :
       (ast.functions[i].body.t = "let" /\ ast.functions[i].body.n \in {1, 2})
       => TrimmedLines(functionDecls[i])
            = FunctionReturningLet(ast.functions[i], WithParams(ast.functions[i], Registry))

\* the statements of an entry sequence with every list-form let replaced by
\* its bindings: one item per emitted statement
RECURSIVE EntryItems(_)
EntryItems(stmts) ==
  IF Len(stmts) = 0 THEN <<>>
  ELSE (IF stmts[1].t = "let" THEN BindingsOf(stmts[1]) ELSE <<stmts[1]>>)
         \o EntryItems(Tail(stmts))

\* the names bound by the lets before item j
BoundBefore(items, j) == {items[i].s : i \in {i \in 1..(j - 1) : items[i].t = "let"}}

\* the lowering of item j (of a let, of its value) where exactly the names
\* bound before it are registered besides the program's own names
ItemCode(items, j, st) ==
  transpileExpr(IF items[j].t = "let" THEN items[j].k[1] ELSE items[j], 0,
                [st EXCEPT !.params = BoundBefore(items, j)]).code

\* the lines of the entry routine: a direct declaration for every binding, the
\* lowering for every other statement, and the return of the last one
DirectLines(items, st) ==
  [j \in 1..(Len(items) - 1) |->
     IF items[j].t = "let"
     THEN <<"let ">> \o items[j].s \o <<" = ">> \o ItemCode(items, j, st) \o <<";">>
     ELSE ItemCode(items, j, st) \o <<";">>]
  \o (IF Last(items).t = "let"
      THEN <<<<"let ">> \o Last(items).s \o <<" = ">> \o ItemCode(items, Len(items), st),
             <<"return ">> \o Last(items).s \o <<";">>>>
      ELSE <<<<"return ">> \o ItemCode(items, Len(items), st) \o <<";">>>>)

\* a finished compilation of an entry sequence of at least n statements, each
\* a well-formed let or an expression, whose last lowering holds no ';'
EntryOfLetsAndExpressions(n) ==
  /\ pc = "done"
  /\ ast.main # Absent
  /\ ast.main.t = "arr"
  /\ Len(ast.main.k) >= n
  /\ \A i \in DOMAIN ast.main.k :
       IF ast.main.k[i].t = "let" THEN ast.main.k[i].n \in {1, 2}
       ELSE ast.main.k[i].t # "null"
  /\ ";" \notin Range(ItemCode(EntryItems(ast.main.k), Len(EntryItems(ast.main.k)),
                               Registry))

\* C16 (as amended): in an entry sequence of two or more statements every let
\* binding is emitted as a direct declaration of the entry routine, statements
\* after it lower its name as an identifier, and statements before it lower
\* that string as a literal unless the program registered it.
C16_LetIsDirectDeclaration ==
  EntryOfLetsAndExpressions(2)
  => MainText = MainWith(DirectLines(EntryItems(ast.main.k), Registry))

\* C16 (as stated, for an entry sequence of any length): the same, including
\* the sequence whose only statement is a let.
C16_AnyLength ==
  EntryOfLetsAndExpressions(1)
  => MainText = MainWith(DirectLines(EntryItems(ast.main.k), Registry))

\* C16 (case reached): a finished compilation whose entry sequence mentions
\* the string x before and after a let that binds x.
C16_Witness ==
  /\ EntryOfLetsAndExpressions(2)
  /\ \E i, j, k \in DOMAIN ast.main.k :
       /\ i < j /\ j < k
       /\ ast.main.k[j].t = "let"
       /\ ast.main.k[i] = Str(ast.main.k[j].s)
       /\ ast.main.k[k] = Str(ast.main.k[j].s)
       /\ ast.main.k[j].s \notin functions \cup globals

\* a sequence without the repetitions of its elements
RECURSIVE FirstOccurrences(_)
FirstOccurrences(seq) ==
  IF Len(seq) = 0 THEN <<>>
  ELSE LET other(x) == x # seq[1]
       IN <<seq[1]>> \o FirstOccurrences(SelectSeq(Tail(seq), other))

\* text begins with prefix
StartsWith(text, prefix) ==
  Len(text) >= Len(prefix) /\ SubSeq(text, 1, Len(prefix)) = prefix

\* the statements after the inlined modules: the import statements, the
\* require statements, one declaration per global and per function in source
\* order, the entry routine and its invocation
IsUnitTail(ps, doc, imps, reqs) ==
  LET ni == Len(imps) + Len(BlankAfter(doc.imports))
      nr == Len(reqs) + Len(BlankAfter(doc.require))
      ng == Len(doc.globals)
      nf == Len(doc.functions)
  IN /\ Len(ps) = ni + nr + ng + nf + 2
     /\ SubSeq(ps, 1, ni) = imps \o BlankAfter(doc.imports)
     /\ SubSeq(ps, ni + 1, ni + nr) = reqs \o BlankAfter(doc.require)
     /\ \A i \in 1..ng :
          StartsWith(ps[ni + nr + i], <<"let ">> \o doc.globals[i].name \o <<" = ">>)
     /\ \A i \in 1..nf :
          StartsWith(ps[ni + nr + ng + i],
                     <<"function ">> \o doc.functions[i].name \o <<"(">>)
     /\ StartsWith(ps[Len(ps) - 1], <<"function main() {">>)
     /\ ps[Len(ps)] = <<"main()">>

\* the parts of the unit are m parts of inlined modules, in the order in which
\* their paths are first declared, and the tail after them
IsUnitSplitAt(m, doc, imps, reqs) ==
  /\ IsUnitTail(SubSeq(parts, m + 1, Len(parts)), doc, imps, reqs)
  /\ IF Len(YaplPathsOf(doc)) = 0 THEN m = 0
     ELSE /\ m >= 3
          /\ parts[1] = <<"// Inlined YAPL modules">>
          /\ parts[m] = <<>>
          /\ FirstOccurrences(SubSeq(parts, 2, m - 1))
               = FirstOccurrences([i \in 1..Len(YaplPathsOf(doc)) |->
                                     importedModules[YaplPathsOf(doc)[i]]])

\* C17: when transpile finishes, the produced unit is ordered: the inlined
\* sub-programs in the order their paths are first declared (imports, then
\* requires); the import statements; the require statements; the globals in
\* source order; the functions in source order; the entry routine; and its
\* invocation as the last line.
C17_UnitOrder ==
  pc = "done"
  => /\ output = JoinTexts(parts, <<NL>>)
     /\ \E m \in 0..Len(parts) :
          IsUnitSplitAt(m, ast, MapImports(NativeImports(ast)).codes,
                        MapRequires(ast.require, baseDir).codes)

\* C17 (case reached): a finished unit with two inlined sub-programs of
\* different text, one from an import and one from a require, an import and a
\* require statement, two globals and two functions.
C17_Witness ==
  /\ pc = "done"
  /\ Len(FirstOccurrences(yaplModules)) >= 3
  /\ \E d \in Range(ast.require) : endsWithYapl(d.module)
  /\ Len(NativeImports(ast)) >= 1
  /\ Len(NativeRequires(ast)) >= 1
  /\ Len(ast.globals) >= 2
  /\ Len(ast.functions) >= 2
  /\ Len(parts) >= 14

\* the expression holds the string nm, at any depth
RECURSIVE UsesString(_, _)
UsesString(e, nm) ==
  \/ (e.t = "str" /\ e.s = nm)
  \/ \E i \in DOMAIN e.k : UsesString(e.k[i], nm)

\* the text names nm, and never inside quotes or a template
BareIn(text, nm) ==
  /\ \E k \in DOMAIN text : text[k] = nm[1]
  /\ \A k \in DOMAIN text :
       text[k] = nm[1]
       => /\ (k = 1 \/ text[k - 1] \notin {Q, BT, SQ})
          /\ (k = Len(text) \/ text[k + 1] \notin {Q, BT, SQ})

\* nm, declared by the global at index i, is a bare identifier wherever a
\* later global, a function or the entry sequence uses it
GlobalVisibleAfter(i, nm) ==
  /\ StartsWith(globalDecls[i], <<"let ">> \o nm \o <<" = ">>)
  /\ \A j \in (i + 1)..Len(ast.globals) :
       UsesString(ast.globals[j].value, nm) => BareIn(globalDecls[j], nm)
  /\ \A f \in DOMAIN ast.functions :
       UsesString(ast.functions[f].body, nm) => BareIn(functionDecls[f], nm)
  /\ UsesString(ast.main, nm) => BareIn(MainText, nm)

\* C18: when transpile finishes, the globals are emitted in source order, and
\* the name of each lowers as a bare identifier in the value of every later
\* global, in every function body and in the entry sequence.
C18_GlobalsVisibleInOrder ==
  pc = "done"
  => /\ Len(globalDecls) = Len(ast.globals)
     /\ \E o \in 0..Len(parts) :
          SubSeq(parts, o + 1, o + Len(globalDecls)) = globalDecls
     /\ \A i \in DOMAIN ast.globals : GlobalVisibleAfter(i, ast.globals[i].name)

\* C18 (case reached): a finished compilation in which a later global, a
\* function and the entry sequence all use the name of the first global.
C18_Witness ==
  /\ pc = "done"
  /\ Len(ast.globals) >= 2
  /\ UsesString(ast.globals[2].value, ast.globals[1].name)
  /\ \E f \in DOMAIN ast.functions :
       UsesString(ast.functions[f].body, ast.globals[1].name)
  /\ UsesString(ast.main, ast.globals[1].name)
  /\ BareIn(globalDecls[2], ast.globals[1].name)

\* the declaration names a namespace alias next to a default binding or a
\* list of named bindings
MixesAlias(d) == d.alias # <<>> /\ (d.default # <<>> \/ Len(d.named) > 0)

\* C19: a program with a native import or a native require that names an alias
\* together with a default or named bindings never gets past the lowering of
\* its declarations: transpile fails there and emits no statement for it.
C19_AliasMixIsFatal ==
  (\/ \E i \in DOMAIN NativeImports(ast) : MixesAlias(NativeImports(ast)[i])
   \/ \E i \in DOMAIN NativeRequires(ast) : MixesAlias(NativeRequires(ast)[i]))
  => pc \notin {"globals", "functions", "done"}

\* the text holds sub as a run of consecutive characters
Contains(text, sub) ==
  \E k \in 0..(Len(text) - Len(sub)) : SubSeq(text, k + 1, k + Len(sub)) = sub

\* the requested paths of the program that resolve to the file read last
RequestedForLastRead ==
  {p \in Range(YaplPathsOf(ast)) : ResolvedPath(baseDir, p) = Last(fsReads).path}

\* C20: when loadYAPLModule fails because the file cannot be read or cannot be
\* decoded, the error message holds the requested path and the resolved
\* absolute path, and the cache holds nothing for that path.
C20_LoadErrorNamesBothPaths ==
  (pc = "failed" /\ error.at = "loadYAPLModule")
  => /\ \E p \in RequestedForLastRead :
          /\ Contains(error.msg, PathText(p))
          /\ Contains(error.msg, PathText(Last(fsReads).path))
     /\ \A p \in RequestedForLastRead : p \notin DOMAIN importedModules

\* a let whose payload is neither a binding nor a list of bindings
IsBadLet(e) == e.t = "let" /\ e.n = 0

\* the statements of a function body or of an entry: the items of a sequence,
\* or the one expression
StatementsOf(e) == IF e.t = "arr" THEN e.k ELSE <<e>>

\* C21: a program with a malformed let among the statements of a function body
\* or of its entry sequence is never compiled to the end: lowering fails with
\* an error that carries the payload.
C21_BadLetIsFatal ==
  (\/ \E f \in DOMAIN ast.functions :
        \E i \in DOMAIN StatementsOf(ast.functions[f].body) :
          IsBadLet(StatementsOf(ast.functions[f].body)[i])
   \/ \E i \in DOMAIN StatementsOf(ast.main) : IsBadLet(StatementsOf(ast.main)[i]))
  => pc # "done"

\* the expression is built from null, numbers and operators only
RECURSIVE IsNullOrArithmetic(_)
IsNullOrArithmetic(e) ==
  \/ e.t \in {"null", "num"}
  \/ /\ e.t = "arr"
     /\ Len(e.k) >= 2
     /\ e.k[1] = Str(<<"+">>)
     /\ \A i \in 2..Len(e.k) : IsNullOrArithmetic(e.k[i])

\* every statement of every function body and of the entry is such an
\* expression, and one of them is null or has a null operand
ProgramOfNulls(a) ==
  /\ a.imports = <<>> /\ a.require = <<>> /\ a.globals = <<>>
  /\ \A f \in DOMAIN a.functions :
       \A i \in DOMAIN StatementsOf(a.functions[f].body) :
         IsNullOrArithmetic(StatementsOf(a.functions[f].body)[i])
  /\ a.main.t = "arr"
  /\ \A i \in DOMAIN a.main.k : IsNullOrArithmetic(a.main.k[i])

\* C23: a null node lowers to the null literal wherever an expression is
\* accepted: a program whose statements are nulls, numbers and sums of them,
\* in function bodies and in the entry sequence, is lowered without an error.
C23_NullNeverRaises ==
  ProgramOfNulls(ast) => pc # "failed"

\* the sub-program a requested path of the program stands for
ModuleDoc(p) == Files[ResolvedPath(baseDir, p)].doc

\* the text declares every global and every function of the document, and no
\* entry routine
DeclaresWithoutEntry(text, doc) ==
  /\ \A i \in DOMAIN doc.globals :
       Contains(text, <<"let ">> \o doc.globals[i].name \o <<" = ">>)
  /\ \A i \in DOMAIN doc.functions :
       Contains(text, <<"function ">> \o doc.functions[i].name \o <<"(">>)
  /\ ~ Contains(text, <<"function main() {">>)
  /\ ~ Contains(text, <<"main()">>)

\* C24: when transpile finishes, every inlined sub-program contributed its
\* globals and functions and no entry routine, their names are registered,
\* and the importer's entry lowers each of these names it uses as a bare
\* identifier, also when the module text was taken from the cache.
C24_ModuleNamesRegistered ==
  pc = "done"
  => \A i \in DOMAIN YaplPathsOf(ast) :
       /\ DeclaresWithoutEntry(yaplModules[i], ModuleDoc(YaplPathsOf(ast)[i]))
       /\ \A k \in DOMAIN exportedNames(ModuleDoc(YaplPathsOf(ast)[i])) :
            /\ exportedNames(ModuleDoc(YaplPathsOf(ast)[i]))[k] \in functions \cup globals
            /\ UsesString(ast.main, exportedNames(ModuleDoc(YaplPathsOf(ast)[i]))[k])
               => BareIn(MainText, exportedNames(ModuleDoc(YaplPathsOf(ast)[i]))[k])

\* C24 (case reached): a finished compilation that took a module text from
\* the cache and whose entry uses, as a value, a global of that module.
C24_Witness ==
  /\ pc = "done"
  /\ Len(lowered) < Len(yaplModules)
  /\ \E i \in DOMAIN YaplPathsOf(ast) :
       /\ ModuleDoc(YaplPathsOf(ast)[i]).main # Absent
       /\ \E k \in DOMAIN ModuleDoc(YaplPathsOf(ast)[i]).globals :
            /\ UsesString(ast.main, ModuleDoc(YaplPathsOf(ast)[i]).globals[k].name)
            /\ BareIn(MainText, ModuleDoc(YaplPathsOf(ast)[i]).globals[k].name)

\* the files loadYAPLModule has read so far, in the order of the reads
ModuleReads ==
  LET byLoad(r) == r.by = "loadYAPLModule"
  IN [i \in 1..Len(SelectSeq(fsReads, byLoad)) |-> SelectSeq(fsReads, byLoad)[i].path]

\* the files of the program's .yapl declarations, imports before requires,
\* one per requested path
DeclaredModuleFiles ==
  [i \in 1..Len(FirstOccurrences(YaplPathsOf(ast))) |->
     ResolvedPath(baseDir, FirstOccurrences(YaplPathsOf(ast))[i])]

\* C28: at every moment of a transpile call the module files read so far are
\* the first of the declared ones in declaration order, imports before
\* requires; every read but the last one has its module text in the cache;
\* and at most one module is being loaded.
C28_ModulesLoadedOneAtATime ==
  pc \in {"imports", "require", "loading"}
  => /\ Len(ModuleReads) <= Len(DeclaredModuleFiles)
     /\ ModuleReads = SubSeq(DeclaredModuleFiles, 1, Len(ModuleReads))
     /\ \A i \in 1..(Len(ModuleReads) - 1) :
          FirstOccurrences(YaplPathsOf(ast))[i] \in DOMAIN importedModules
     /\ Len(ModuleReads) - Cardinality(DOMAIN importedModules)
          = (IF pc = "loading" THEN 1 ELSE 0)

\* C28 (case reached): a third module, declared by a require, is being loaded
\* while the two modules declared by imports are in the cache.
C28_Witness ==
  /\ pc = "loading"
  /\ pending.from = "require"
  /\ Len(ModuleReads) = 3
  /\ Cardinality(Range(ModuleReads)) = 3
  /\ Cardinality(DOMAIN importedModules) = 2

\* a number, a boolean or a string that names nothing
IsLiteral(e) == e.t \in {"num", "bool"} \/ (e.t = "str" /\ e.s \notin functions \cup globals)

\* C29: when transpile finishes a program whose main is one literal, not a
\* sequence, the entry routine returns the lowering of that literal, the
\* falsy literals 0, false and "" included.
C29_SingleMainIsReturned ==
  (pc = "done" /\ IsLiteral(ast.main))
  => MainText = MainWith(<<<<"return ">> \o transpileExpr(ast.main, 0, Registry).code
                             \o <<";">>>>)

\* the expression calls nm: nm is the head of a sequence in it
RECURSIVE UsesAsCallee(_, _)
UsesAsCallee(e, nm) ==
  \/ (e.t = "arr" /\ Len(e.k) > 0 /\ e.k[1] = Str(nm))
  \/ \E i \in DOMAIN e.k : UsesAsCallee(e.k[i], nm)

\* the expression holds the string nm, and only in value position
UsesAsValue(e, nm) == UsesString(e, nm) /\ ~ UsesAsCallee(e, nm)

\* the text names nm, and only right after the opening quote of a literal
QuotedIn(text, nm) ==
  /\ \E k \in DOMAIN text : text[k] = nm[1]
  /\ \A k \in DOMAIN text : text[k] = nm[1] => (k > 1 /\ text[k - 1] \in {Q, BT})

\* the text after the first line break: the body of a function declaration
BodyText(decl) ==
  SubSeq(decl, (CHOOSE k \in DOMAIN decl : decl[k] = NL /\ \A j \in 1..(k - 1) : decl[j] # NL) + 1,
         Len(decl))

\* `let name = value;` without `let name = `
ValueTextOf(decl) == SubSeq(decl, 4, Len(decl))

\* the name of the function at index f is quoted in every global's value and
\* in the bodies of the functions before it, bare in its own body, in the
\* bodies after it and in the entry
FunctionNameFollowsOrder(f, nm) ==
  /\ \A g \in DOMAIN ast.globals :
       UsesAsValue(ast.globals[g].value, nm) => QuotedIn(ValueTextOf(globalDecls[g]), nm)
  /\ \A e \in DOMAIN ast.functions :
       UsesAsValue(ast.functions[e].body, nm)
       => IF e < f THEN QuotedIn(BodyText(functionDecls[e]), nm)
          ELSE BareIn(BodyText(functionDecls[e]), nm)
  /\ UsesAsValue(ast.main, nm) => BareIn(MainText, nm)

RECURSIVE Fact(_), Fibonacci(_)
Fact(n) == IF n <= 1 THEN 1 ELSE n * Fact(n - 1)
Fibonacci(n) == IF n < 2 THEN n ELSE Fibonacci(n - 1) + Fibonacci(n - 2)

\* the document declares func alone and its entry is [[func.name, k]]
CallsWith(func, k) ==
  /\ ast.functions = <<func>>
  /\ ast.main = Arr(<<Arr(<<Str(func.name), Num(k)>>)>>)

\* the function at index f names itself and its parameters as bare
\* identifiers wherever its body uses them
OwnNamesBare(f) ==
  \A nm \in {ast.functions[f].name} \cup Range(ast.functions[f].params) :
    UsesString(ast.functions[f].body, nm) => BareIn(BodyText(functionDecls[f]), nm)

\* C25: in the source of a program without modules, every function's body
\* names the function itself and its parameters as bare identifiers; and
\* running the factorial and fib definitions of the tests ends with n! for
\* [factorial, n], n in 0..5, and with the n-th Fibonacci number for
\* [fib, n], n in 0..10.
C25_SelfRecursionRuns ==
  /\ (pc \in {"done", "executed"} /\ YaplPathsOf(ast) = <<>>)
     => \A f \in DOMAIN ast.functions : OwnNamesBare(f)
  /\ \A k \in 0..MaxFactorial :
       (pc = "executed" /\ CallsWith(factorial, k)) => value = NumV(Fact(k))
  /\ \A k \in 0..MaxFib :
       (pc = "executed" /\ CallsWith(fib, k)) => value = NumV(Fibonacci(k))

\* C25 (case reached): [fib, 10] has run and gave 55, from a body that calls
\* fib by its bare name.
C25_Witness ==
  /\ pc = "executed"
  /\ CallsWith(fib, MaxFib)
  /\ value = NumV(55)
  /\ BareIn(BodyText(functionDecls[1]), <<"fib">>)
  /\ BareIn(BodyText(functionDecls[1]), <<"n">>)

\* +1 for '+', -1 for '-'
SignOf(o) == IF o = "-" THEN -1 ELSE 1

\* the document declares sg(n) with the given body and its entry is [[sg, k]]
RunsSigned(body, k) ==
  /\ pc = "executed"
  /\ Len(ast.functions) = 1
  /\ ast.functions[1].name = <<"sg">>
  /\ ast.functions[1].body = body
  /\ ast.main = Arr(<<Arr(<<Str(<<"sg">>), Num(k)>>)>>)

\* C26: a one-argument '+' or '-' applied to a one-argument '+' or '-' of the
\* parameter n runs to n with both signs applied, and n holds its argument
\* afterwards.
C26_DoubleSignKeepsValue ==
  \A o1 \in SignOps, o2 \in SignOps, k \in {0, 3} :
    /\ RunsSigned(Arr(<<Signed(o1, o2)>>), k) => value = NumV(SignOf(o1) * SignOf(o2) * k)
    /\ RunsSigned(Arr(<<Signed(o1, o1), Str(<<"n">>)>>), k) => value = NumV(k)

-----------------------------------------------------------------------------
(* Properties of several calls on one instance (SpecRuns).                 *)

\* C11: a call of transpile that finishes returns, for its document, the
\* source that the first call on a new instance returned for the same
\* document: nothing an earlier call registered or cached changes it.
C11_NoStateCrossesRuns ==
  (pc = "done" /\ ast \in DOMAIN fresh) => output = fresh[ast]

-----------------------------------------------------------------------------
(* Properties of strings in value position (SpecValue).                    *)

IsRegistered(s) == s \in functions \cup globals \cup params

\* a string that begins with the '.' marker followed by a (dotted) identifier
IsHostReference(s) == Len(s) > 0 /\ s[1] = "." /\ IsDottedIdentifier(Tail(s))

\* a string that begins with the marker and is no host reference: the
\* property below leaves its lowering open
IsMalformedReference(s) == Len(s) > 0 /\ s[1] = "." /\ ~ IsDottedIdentifier(Tail(s))

\* the lowering of the string s: the bare identifier if s is registered or is
\* a host reference, the quoted literal otherwise
ValueText(s) ==
  IF IsRegistered(s) THEN s
  ELSE IF IsHostReference(s) THEN Tail(s)
  ELSE JSONString(s)

\* the string in value position in the harness input e
ValueOf(e) == IF e.t = "str" THEN e.s ELSE Last(e.k).s

\* C12: a string in value position lowers to a bare identifier if and only
\* if it is a registered function, global or parameter name or begins with
\* the '.' marker; every other string lowers to a quoted string literal.
C12_IdentifierIffRegistered ==
  (pc # "ready" /\ ~ IsMalformedReference(ValueOf(node))) =>
    /\ frag.err = ""
    /\ frag.code =
         IF node.t = "str" THEN ValueText(node.s)
         ELSE IF node.k[1].s = <<"!">> THEN <<"!">> \o ValueText(ValueOf(node))
         ELSE <<"f", "(">> \o ValueText(ValueOf(node)) \o <<")">>

-----------------------------------------------------------------------------
(* Properties of sequence lowering (SpecSeq).                              *)

HeadIs(e, heads) ==
  e.t = "arr" /\ Len(e.k) > 0 /\ e.k[1].t = "str" /\ Len(e.k[1].s) = 1
    /\ e.k[1].s[1] \in heads

Mentions(msg, sym) == \E i \in 1..Len(msg) : msg[i] = sym

IsCallOf(code, sym) == Len(code) >= 2 /\ code[1] = sym /\ code[2] = "("

\* C4: a sequence whose head is an operator-shaped string that is not a
\* supported operator ('^', '<<', '===') makes lowering raise an error that
\* names the symbol, and the lowering never returns a call with the symbol
\* as callee.
C4_UnknownOperatorIsFatal ==
  (pc # "ready" /\ HeadIs(node, UnsupportedOperators)) =>
    /\ frag.err # ""
    /\ Mentions(frag.msg, node.k[1].s[1])
    /\ ~ IsCallOf(frag.code, node.k[1].s[1])

LoweredAt(e, prec) == transpileExpr(e, prec, Registry).code

IsPropertyAccess(e) == HeadIs(e, {"."}) /\ Len(e.k) >= 3

\* the member access the property-access form stands for
MemberAccessText(e) ==
  LET obj  == LoweredAt(e.k[2], 20)
      prop == e.k[3]
      args == [i \in 1..(Len(e.k) - 3) |-> LoweredAt(e.k[i + 3], 20)]
      call == IF Len(e.k) > 3
              THEN <<"(">> \o JoinTexts(args, <<", ">>) \o <<")">>
              ELSE <<>>
  IN IF prop.t = "str" /\ IsIdentifierText(prop.s)
     THEN obj \o <<".">> \o prop.s \o call
     ELSE obj \o <<"[">> \o LoweredAt(prop, 20) \o <<"]">> \o call

ArrayLiteralText(e) ==
  <<"[">> \o JoinTexts([i \in 1..Len(e.k) |-> LoweredAt(e.k[i], 0)], <<", ">>) \o <<"]">>

\* C6: a non-empty sequence whose head is not a string lowers to the array
\* literal of its lowered elements, and the empty sequence lowers to the
\* empty array literal.
C6_ArrayLiteral ==
  (pc # "ready" /\ node.t = "arr" /\ (Len(node.k) = 0 \/ node.k[1].t # "str")) =>
    (frag.err = "" /\ frag.code = ArrayLiteralText(node))

-----------------------------------------------------------------------------
(* Properties of operator lowering (SpecArith, SpecPlus).                  *)

RECURSIVE EvalTree(_)
\* the value of an arithmetic tree, bottom-up
EvalTree(e) ==
  IF e.t = "num" THEN NumV(e.n)
  ELSE ApplyOp(e.k[1].s[1], EvalTree(e.k[2]), EvalTree(e.k[3]))

\* C7: for every tree of depth at most 3 over the binary operators + - * / %
\* ** and integer literals, evaluating the emitted text gives the same number
\* as evaluating the tree bottom-up.
C7_EmittedGroupsAsTree ==
  (pc = "executed" /\ EvalTree(node).ok /\ value.ok) => value = EvalTree(node)

LiteralValue(e) == IF e.t = "num" THEN NumV(e.n) ELSE StrV(e.s)

RECURSIVE ChainPlus(_, _)
\* a + b + ... from the left, acc the value so far
ChainPlus(acc, es) ==
  IF Len(es) = 0 THEN acc
  ELSE ChainPlus(ApplyOp("+", acc, LiteralValue(es[1])), Tail(es))

IsPlusOfLiterals(e) ==
  HeadIs(e, {"+"}) /\ Len(e.k) >= 3
    /\ \A i \in 2..Len(e.k) : e.k[i].t \in {"num", "str"}

\* C8: for every '+' application with two or more operands that are numbers
\* or string literals, the emitted text evaluates to the value of the plain
\* left-to-right chain a + b + ... under the host's '+'.
C8_FoldingKeepsValue ==
  (pc = "executed" /\ IsPlusOfLiterals(node)) =>
    value = ChainPlus(LiteralValue(node.k[2]), SubSeq(node.k, 3, Len(node.k)))

\* the operands of a '+' application that literal folding merged as text
MergedAsText(e) ==
  {i \in 2..Len(e.k) : isStringLiteral(LoweredAt(e.k[i], PREC("+")))}

FoldingApplies(e) ==
  ~ convertStringConcatToTemplate(
      [i \in 1..(Len(e.k) - 1) |-> LoweredAt(e.k[i + 1], PREC("+"))]).null

\* C9: literal folding merges an operand of '+' as literal text only when
\* the operand's fragment is one self-contained string literal; an operand
\* that is an operator expression is kept as an expression.
C9_OnlyLiteralsMerged ==
  (pc # "ready" /\ HeadIs(node, {"+"}) /\ Len(node.k) >= 3 /\ FoldingApplies(node)) =>
    \A i \in MergedAsText(node) : node.k[i].t = "str"

-----------------------------------------------------------------------------
(* Properties of conditionals (SpecCond).                                  *)

\* the value of an expression lowered and evaluated on its own
ValueAlone(e) == EvalJS(LoweredAt(e, 0))

\* the value of cond ? th : el given the values of the three
Chosen(c, th, el) == IF ~ c.ok THEN NoV ELSE IF Truthy(c) THEN th ELSE el

\* C22: the text of an if form evaluates to the value of its then branch when
\* its condition is true and to the value of its else branch (null when the
\* else key is absent) when its condition is false.
C22_IfSelectsBranch ==
  (pc = "executed" /\ node.t = "if")
  => value = Chosen(ValueAlone(node.k[1]), ValueAlone(node.k[2]),
                    IF node.n = 1 THEN ValueAlone(node.k[3]) ELSE NullV)

\* the value of x op y given the values of the operands
Applied(op, x, y) ==
  IF ~ x.ok THEN NoV
  ELSE IF op = "||" THEN (IF Truthy(x) THEN x ELSE y)
  ELSE IF op = "&&" THEN (IF Truthy(x) THEN y ELSE x)
  ELSE ApplyOp(IF op = "==" THEN "===" ELSE IF op = "!=" THEN "!==" ELSE op, x, y)

\* C27: the text of an operator applied to two operands, one of them an if
\* form, evaluates to the operator applied to the values of the operands.
C27_IfOperandIsOneOperand ==
  (/\ pc = "executed"
   /\ node.t = "arr"
   /\ Len(node.k) = 3
   /\ node.k[1].t = "str"
   /\ node.k[1].s[1] \in CondOps
   /\ (node.k[2].t = "if" \/ node.k[3].t = "if"))
  => value = Applied(node.k[1].s[1], ValueAlone(node.k[2]), ValueAlone(node.k[3]))

====
